---- MODULE Spec2Model ----
(***************************************************************************)
(* Plugin host of the wechat-tool bot: the plugin registry                 *)
(* (core/plugin_manager.py), the plugin lifecycle (core/base_plugin.py and *)
(* the shipped plugins), the host (core/bot.py, main.py), and the router   *)
(* (core/message_handler.py): system commands, plugin commands and the     *)
(* fallback, on the texts itchat delivers and on execute_command.          *)
(*                                                                         *)
(* Spec is the registry and the host; RouterSpec is the router answering   *)
(* texts over a loaded registry; CommandSpec is execute_command of each    *)
(* plugin class called on its own.                                         *)
(* ReloadRaceSpec is reload_plugins() interrupted by the signal handler;   *)
(* StatusRaceSpec is get_status() overlapping load and unload; ConfigSpec  *)
(* is the ConfigManager (core/config_manager.py) on its own, ReaderSpec a  *)
(* get overlapping reload(); MainSpec is main() step by step; PluginSpec   *)
(* is enable(), disable(), start() and stop() on the plugin objects.       *)
(* LifecycleSpec is start() and stop() on the four shipped plugins used on *)
(* their own; TaskSpec is the scheduler plugin's add, list and delete      *)
(* commands (plugins/scheduler.py), TimerSpec its timers firing while      *)
(* tasks are added and deleted, ReloadTimerSpec the timers while the       *)
(* plugin is reloaded; NewsSpec is the daily push of plugins/news_pusher.py *)
(* overlapping subscribe and unsubscribe.                                  *)
(***************************************************************************)
EXTENDS Integers, Sequences, FiniteSets, TLC

\* Plugin file names under plugins/: a shipped plugin with a worker thread
\* and a third-party file ("extra") holding any other subclass of BasePlugin.
PluginNames == {"scheduler", "extra"}

\* Whether plugins/<name>.py yields a plugin when load_plugin looks at it.
SourceKinds == {"ok", "unloadable"}

\* Where load_plugin gives up on an unloadable source: the file is missing,
\* executing the module raises, the module holds no subclass of BasePlugin,
\* or the constructor raises.
FailureKinds == {"missing", "exec_raises", "no_class", "ctor_raises"}

\* Outcome of the one fallible step inside a start() or stop() call.
Outcomes == {"ok", "fail"}

\* Number of plugin instances constructed in one run of the model.
MaxInstances == 2

InstanceIds == 1..MaxInstances

\* Python's None, as the return value of load_plugin.
None == 0

VARIABLES
    plugins,         \* PluginManager.plugins: ordered dict name -> instance
    plugin_modules,  \* PluginManager.plugin_modules: ordered dict name -> module
    inst,            \* the plugin objects constructed so far, by identity
    source,          \* the plugins directory: what each <name>.py holds
    enabled,         \* config "plugins.enabled"
    bot,             \* WeChatBot.is_running and how far main() has got
    last,            \* the last operation and what it returned
    router,          \* the message the handler has answered and its reply
    reloading,       \* how far a reload_plugins() call in progress has got
    status,          \* how far a get_status() call in progress has got
    reader,          \* how far a ConfigManager.get call in progress has got
    config,          \* ConfigManager.config: the in-memory tree
    file,            \* what the file at config_path holds
    main,            \* how far main() has got and what it returned
    scheduled_tasks, \* the rows of table scheduled_tasks in the SQLite file
    jobs,            \* schedule.jobs: the timers of the process-wide schedule
    outbox,          \* what the timer callbacks have sent with itchat.send_msg
    clock,           \* the time slots that have passed
    firing,          \* how far a timer callback in progress has got
    subscribers,     \* NewsPusherPlugin.subscribers
    push             \* how far a _push_daily_news() call in progress has got

\* The calls in progress.
call_vars == <<reloading, status, reader>>

\* The ConfigManager and main().
store_vars == <<config, file, main>>

\* The scheduler plugin's table and timers.
timer_vars == <<scheduled_tasks, jobs, outbox, clock, firing>>

\* The news plugin's subscribers and the push in progress.
news_vars == <<subscribers, push>>

vars ==
    <<plugins, plugin_modules, inst, source, enabled, bot, last, router, call_vars,
      store_vars, timer_vars, news_vars>>

-----------------------------------------------------------------------------
(* Python dict, which keeps insertion order and one entry per key.          *)

DictHas(d, k) == \E i \in 1..Len(d) : d[i].key = k

DictGet(d, k) == d[CHOOSE i \in 1..Len(d) : d[i].key = k].val

\* d[k] = v, written the way a list-backed registry would: always append.
DictSetAppend(d, k, v) == Append(d, [key |-> k, val |-> v])

\* d[k] = v: an existing key keeps its position and gets the new value.
DictSet(d, k, v) ==
    IF DictHas(d, k)
    THEN [i \in 1..Len(d) |-> IF d[i].key = k THEN [key |-> k, val |-> v] ELSE d[i]]
    ELSE Append(d, [key |-> k, val |-> v])

\* del d[k]
DictDel(d, k) == SelectSeq(d, LAMBDA e : e.key # k)

\* list(d.keys())
DictKeys(d) == [i \in 1..Len(d) |-> d[i].key]

\* list(d.values())
DictValues(d) == [i \in 1..Len(d) |-> d[i].val]

Range(s) == {s[i] : i \in 1..Len(s)}

-----------------------------------------------------------------------------
(* Plugin objects.                                                          *)

\* The plugin files that ship in plugins/.
ShippedPlugins == {"file_converter", "scheduler", "news_pusher", "help"}

\* The class found in plugins/<name>.py: SchedulerPlugin and NewsPusherPlugin
\* own a worker thread, FileConverterPlugin and HelpPlugin only keep the
\* flag, "extra" is any other BasePlugin subclass, whose start() and stop()
\* set the flag or raise.
PluginClass(name) ==
    CASE name \in {"scheduler", "news_pusher"} -> "threaded"
      [] name \in {"file_converter", "help"} -> "plain"
      [] OTHER -> "custom"

\* self.name as the constructor leaves it.  The field name of an instance
\* record is the module name the object was loaded from; the attribute the
\* descriptor reports is the one __init__ assigns: SchedulerPlugin sets
\* "Scheduler", a subclass that assigns nothing keeps BasePlugin's
\* self.__class__.__name__.
self_name(p) ==
    CASE p.name = "scheduler" -> "Scheduler"
      [] p.name = "news_pusher" -> "NewsPusher"
      [] p.name = "file_converter" -> "FileConverter"
      [] p.name = "help" -> "Help"
      [] OTHER -> "ExtraPlugin"

\* A slot of the object store that no constructor has filled yet.
NoInstance ==
    [name |-> "none", is_running |-> FALSE, loop_flag |-> FALSE,
     thread |-> "none", started_ok |-> FALSE, is_enabled |-> TRUE]

\* BasePlugin.__init__ and the subclass constructors: is_running is False,
\* is_enabled is True, no worker thread exists.  started_ok records whether a start() call has
\* returned normally since the last stop().
NewInstance(name) ==
    [name |-> name, is_running |-> FALSE, loop_flag |-> FALSE,
     thread |-> "none", started_ok |-> FALSE, is_enabled |-> TRUE]

\* An object that nothing refers to any more: it was dropped from the
\* registry while stopped, with no live worker thread.
Gone ==
    [name |-> "gone", is_running |-> FALSE, loop_flag |-> FALSE,
     thread |-> "none", started_ok |-> FALSE, is_enabled |-> TRUE]

Allocated(i) == {id \in InstanceIds : i[id].name # "none"}

NewId(i) == Cardinality(Allocated(i)) + 1

\* SchedulerPlugin._start_scheduler_thread: o = "fail" is Thread.start()
\* raising RuntimeError (no new thread can be started).
start_thread(p, o) ==
    IF p.thread # "alive"
    THEN IF o = "fail"
         THEN [p |-> [p EXCEPT !.loop_flag = TRUE, !.thread = "created"], raised |-> TRUE]
         ELSE [p |-> [p EXCEPT !.loop_flag = TRUE, !.thread = "alive"], raised |-> FALSE]
    ELSE [p |-> p, raised |-> FALSE]

\* SchedulerPlugin._stop_scheduler_thread: o = "fail" is join(timeout=5)
\* timing out with the worker still alive.  It does not raise.
stop_thread(p, o) ==
    LET q == [p EXCEPT !.loop_flag = FALSE]
    IN  IF q.thread = "alive" /\ o = "ok" THEN [q EXCEPT !.thread = "dead"] ELSE q

\* start() written to set is_running once the worker has been started.
plugin_start_flag_last(p, o) ==
    CASE PluginClass(p.name) = "threaded" ->
            LET r == start_thread(p, o)
            IN  IF r.raised THEN r
                ELSE [p |-> [r.p EXCEPT !.is_running = TRUE, !.started_ok = TRUE],
                      raised |-> FALSE]
      [] PluginClass(p.name) = "plain" ->
            [p |-> [p EXCEPT !.is_running = TRUE, !.started_ok = TRUE], raised |-> FALSE]
      [] OTHER ->
            IF o = "fail" THEN [p |-> p, raised |-> TRUE]
            ELSE [p |-> [p EXCEPT !.is_running = TRUE, !.started_ok = TRUE],
                  raised |-> FALSE]

\* plugin.start(): the shipped plugins set is_running first and then start
\* their worker (FileConverterPlugin and HelpPlugin have none); a third-party
\* start() either raises or sets the flag.
plugin_start(p, o) ==
    CASE PluginClass(p.name) = "threaded" ->
            LET r == start_thread([p EXCEPT !.is_running = TRUE], o)
            IN  IF r.raised THEN r
                ELSE [p |-> [r.p EXCEPT !.started_ok = TRUE], raised |-> FALSE]
      [] PluginClass(p.name) = "plain" ->
            [p |-> [p EXCEPT !.is_running = TRUE, !.started_ok = TRUE], raised |-> FALSE]
      [] OTHER ->
            IF o = "fail" THEN [p |-> p, raised |-> TRUE]
            ELSE [p |-> [p EXCEPT !.is_running = TRUE, !.started_ok = TRUE],
                  raised |-> FALSE]

\* plugin.stop(): the shipped plugins clear is_running and then stop their
\* worker; a third-party stop() either raises or clears the flag.
plugin_stop(p, o) ==
    CASE PluginClass(p.name) = "threaded" ->
            [p |-> stop_thread([p EXCEPT !.is_running = FALSE, !.started_ok = FALSE], o),
             raised |-> FALSE]
      [] PluginClass(p.name) = "plain" ->
            [p |-> [p EXCEPT !.is_running = FALSE, !.started_ok = FALSE], raised |-> FALSE]
      [] OTHER ->
            IF o = "fail" THEN [p |-> p, raised |-> TRUE]
            ELSE [p |-> [p EXCEPT !.is_running = FALSE, !.started_ok = FALSE],
                  raised |-> FALSE]

\* disable() written to clear the flag and leave the plugin running.
plugin_disable_flag_only(p, o) ==
    [p |-> [p EXCEPT !.is_enabled = FALSE], raised |-> FALSE, stop_called |-> FALSE]

\* BasePlugin.disable: is_enabled is cleared, then stop() is called when
\* is_running is true; an exception of stop() leaves disable().
plugin_disable(p, o) ==
    IF p.is_running
    THEN [p |-> plugin_stop([p EXCEPT !.is_enabled = FALSE], o).p,
          raised |-> plugin_stop([p EXCEPT !.is_enabled = FALSE], o).raised,
          stop_called |-> TRUE]
    ELSE [p |-> [p EXCEPT !.is_enabled = FALSE], raised |-> FALSE, stop_called |-> FALSE]

\* BasePlugin.enable
plugin_enable(p) == [p EXCEPT !.is_enabled = TRUE]

-----------------------------------------------------------------------------
(* PluginManager.  A registry value w is the record of plugins,             *)
(* plugin_modules and the plugin objects; every method maps w to the        *)
(* registry it leaves and the value it returns.                             *)

Registry(p, m, i) == [plugins |-> p, plugin_modules |-> m, inst |-> i]

\* load_plugin written so that the module is recorded before the plugin
\* class is looked up and constructed.
load_plugin_module_first(w, src, name, why) ==
    IF src[name] # "ok" /\ why \in {"missing", "exec_raises"}
    THEN [w |-> w, ret |-> None]
    ELSE LET id == NewId(w.inst)
             m  == [w EXCEPT !.plugin_modules = DictSet(w.plugin_modules, name, id)]
         IN  IF src[name] # "ok"
             THEN [w |-> m, ret |-> None]
             ELSE [w |-> [m EXCEPT !.plugins = DictSet(w.plugins, name, id),
                                   !.inst[id] = NewInstance(name)],
                   ret |-> id]

\* load_plugin: no file, a module that raises when executed, a module with
\* no BasePlugin subclass and a constructor that raises all return None
\* before anything is registered; otherwise the new instance and its module
\* are stored under the name.
load_plugin(w, src, name, why) ==
    IF src[name] # "ok" /\ why = "missing" THEN [w |-> w, ret |-> None]
    ELSE IF src[name] # "ok" /\ why = "exec_raises" THEN [w |-> w, ret |-> None]
    ELSE IF src[name] # "ok" /\ why = "no_class" THEN [w |-> w, ret |-> None]
    ELSE IF src[name] # "ok" /\ why = "ctor_raises" THEN [w |-> w, ret |-> None]
    ELSE LET id == NewId(w.inst)
         IN  [w |-> [plugins |-> DictSet(w.plugins, name, id),
                     plugin_modules |-> DictSet(w.plugin_modules, name, id),
                     inst |-> [w.inst EXCEPT ![id] = NewInstance(name)]],
              ret |-> id]

\* unload_plugin written to report success without deleting the entry.
unload_plugin_keep(w, name, o) ==
    IF DictHas(w.plugins, name)
    THEN LET id == DictGet(w.plugins, name)
             r  == plugin_stop(w.inst[id], o[name])
         IN  [w |-> [w EXCEPT !.inst[id] = r.p], ret |-> ~r.raised,
              stop_raised |-> r.raised]
    ELSE [w |-> w, ret |-> FALSE, stop_raised |-> FALSE]

\* unload_plugin: stop() first; when it raises, the except branch returns
\* False with the entry still registered; otherwise the entry and its
\* module are deleted.
unload_plugin(w, name, o) ==
    IF DictHas(w.plugins, name)
    THEN LET id == DictGet(w.plugins, name)
             r  == plugin_stop(w.inst[id], o[name])
         IN  IF r.raised
             THEN [w |-> [w EXCEPT !.inst[id] = r.p], ret |-> FALSE,
                   stop_raised |-> TRUE]
             ELSE [w |-> [plugins |-> DictDel(w.plugins, name),
                          plugin_modules |-> DictDel(w.plugin_modules, name),
                          inst |-> [w.inst EXCEPT ![id] = r.p]],
                   ret |-> TRUE, stop_raised |-> FALSE]
    ELSE [w |-> w, ret |-> FALSE, stop_raised |-> FALSE]

\* reload_plugin written the way BasePlugin.reload works: the registered
\* object is stopped and kept, nothing is constructed.
reload_plugin_same_object(w, src, name, o, why) ==
    IF DictHas(w.plugins, name)
    THEN LET id == DictGet(w.plugins, name)
         IN  [w |-> [w EXCEPT !.inst[id] = plugin_stop(w.inst[id], o[name]).p],
              ret |-> TRUE, sub_ok |-> TRUE]
    ELSE [w |-> load_plugin(w, src, name, why).w,
          ret |-> load_plugin(w, src, name, why).ret # None, sub_ok |-> FALSE]

\* reload_plugin: unload (its result is ignored), then load; returns whether
\* load returned an instance.  sub_ok is what the unload step returned.
reload_plugin(w, src, name, o, why) ==
    LET u == unload_plugin(w, name, o)
        l == load_plugin(u.w, src, name, why)
    IN  [w |-> l.w, ret |-> (l.ret # None), sub_ok |-> u.ret]

RECURSIVE unload_each(_, _, _)
\* for plugin_name in list(self.plugins.keys()): self.unload_plugin(plugin_name)
unload_each(w, names, o) ==
    IF names = <<>> THEN w
    ELSE unload_each(unload_plugin(w, Head(names), o).w, Tail(names), o)

RECURSIVE load_each(_, _, _, _)
\* for plugin_name in enabled_plugins: self.load_plugin(plugin_name)
load_each(w, src, names, why) ==
    IF names = <<>> THEN w
    ELSE load_each(load_plugin(w, src, Head(names), why).w, src, Tail(names), why)

\* load_plugins: load every name of plugins.enabled, in order.
load_plugins(w, src, en, why) == load_each(w, src, en, why)

\* reload_plugins: unload every loaded plugin, then load plugins.enabled.
\* Nothing is started.
reload_plugins(w, src, en, o, why) ==
    load_each(unload_each(w, DictKeys(w.plugins), o), src, en, why)

RECURSIVE each_item_abort(_, _, _, _)
\* The loop without the try/except around each call.
each_item_abort(items, acc, o, stopping) ==
    IF items = <<>> THEN acc
    ELSE LET e == Head(items)
             r == IF stopping THEN plugin_stop(acc.inst[e.val], o[e.key])
                  ELSE plugin_start(acc.inst[e.val], o[e.key])
             a == [inst |-> [acc.inst EXCEPT ![e.val] = r.p],
                   called |-> Append(acc.called, e.val),
                   failed |-> IF r.raised THEN acc.failed \cup {e.val} ELSE acc.failed,
                   raised |-> r.raised]
         IN  IF r.raised THEN a ELSE each_item_abort(Tail(items), a, o, stopping)

RECURSIVE each_item(_, _, _, _)
\* for plugin_name, plugin in self.plugins.items(): try: plugin.start() (or
\* stop()) except Exception: log.  called lists the objects whose method was
\* called, failed those whose call raised; the loop itself never raises.
each_item(items, acc, o, stopping) ==
    IF items = <<>> THEN acc
    ELSE LET e == Head(items)
             r == IF stopping THEN plugin_stop(acc.inst[e.val], o[e.key])
                  ELSE plugin_start(acc.inst[e.val], o[e.key])
             a == [inst |-> [acc.inst EXCEPT ![e.val] = r.p],
                   called |-> Append(acc.called, e.val),
                   failed |-> IF r.raised THEN acc.failed \cup {e.val} ELSE acc.failed,
                   raised |-> FALSE]
         IN  each_item(Tail(items), a, o, stopping)

\* start_plugins
start_plugins(w, o) ==
    each_item(w.plugins, [inst |-> w.inst, called |-> <<>>, failed |-> {}, raised |-> FALSE],
              o, FALSE)

\* stop_plugins
stop_plugins(w, o) ==
    each_item(w.plugins, [inst |-> w.inst, called |-> <<>>, failed |-> {}, raised |-> FALSE],
              o, TRUE)

\* get_status: total_plugins, enabled_plugins, loaded_plugins and one
\* descriptor per entry.
get_status(w, en) ==
    [total_plugins  |-> Len(w.plugins),
     enabled_plugins |-> en,
     loaded_plugins |-> DictKeys(w.plugins),
     plugin_details |-> [n \in Range(DictKeys(w.plugins)) |->
                            [name |-> self_name(w.inst[DictGet(w.plugins, n)]),
                             is_running |-> w.inst[DictGet(w.plugins, n)].is_running]]]

-----------------------------------------------------------------------------
(* Message text.  A text is a sequence of characters; a word that holds no  *)
(* whitespace and no '/' is carried as one element of the sequence.         *)

\* Longest text of arbitrary characters sent to the router.
MaxTextLen == 4

\* Most whitespace characters put before and after a command word.
MaxPad == 1

\* Whitespace as str.strip() sees it: the space and the line feed.
WhiteSpace == {" ", "\n"}

\* The characters of the arbitrary texts: the plugin prefix, whitespace, the
\* names of the two plugin files and a word that is also a system command.
Chars == {"/", " ", "\n", "scheduler", "extra", "help"}

\* The words of command_patterns (the Chinese aliases in pinyin) and two
\* spellings in upper case.
CommandWords ==
    {"bangzhu", "help", "zhuangtai", "status", "chajian", "plugins",
     "chongzai", "reload", "HELP", "RELOAD"}

SeqsUpTo(S, n) == UNION {[1..k -> S] : k \in 0..n}

\* Every text of at most MaxTextLen characters, and every command word
\* with at most MaxPad whitespace characters on either side.
Texts ==
    SeqsUpTo(Chars, MaxTextLen)
        \cup {pre \o <<word>> \o post :
                pre \in SeqsUpTo(WhiteSpace, MaxPad), word \in CommandWords,
                post \in SeqsUpTo(WhiteSpace, MaxPad)}

\* msg['FromUserName']
UserIds == {"u1", "u2"}

RECURSIVE lstrip(_)
lstrip(s) == IF s # <<>> /\ Head(s) \in WhiteSpace THEN lstrip(Tail(s)) ELSE s

RECURSIVE rstrip(_)
rstrip(s) ==
    IF s # <<>> /\ s[Len(s)] \in WhiteSpace THEN rstrip(SubSeq(s, 1, Len(s) - 1)) ELSE s

\* str.strip()
strip(s) == rstrip(lstrip(s))

\* str.lower() of one word, as re.IGNORECASE compares.
LowerWord(c) ==
    CASE c = "HELP" -> "help"
      [] c = "RELOAD" -> "reload"
      [] OTHER -> c

lower(s) == [i \in 1..Len(s) |-> LowerWord(s[i])]

\* content.startswith(c)
startswith(s, c) == s # <<>> /\ Head(s) = c

\* s.split(sep, 1) splitting at every whitespace character.
split_once_whitespace(s, sep) ==
    IF \E i \in 1..Len(s) : s[i] \in WhiteSpace
    THEN LET i == CHOOSE k \in 1..Len(s) :
                    s[k] \in WhiteSpace /\ \A j \in 1..(k - 1) : s[j] \notin WhiteSpace
         IN  <<SubSeq(s, 1, i - 1), SubSeq(s, i + 1, Len(s))>>
    ELSE <<s>>

\* s.split(sep, 1): cut at the first occurrence of sep, which is dropped;
\* without one the list holds s alone.
split_once(s, sep) ==
    IF \E i \in 1..Len(s) : s[i] = sep
    THEN LET i == CHOOSE k \in 1..Len(s) : s[k] = sep /\ \A j \in 1..(k - 1) : s[j] # sep
         IN  <<SubSeq(s, 1, i - 1), SubSeq(s, i + 1, Len(s))>>
    ELSE <<s>>

\* command_patterns, in the order of the dict: the words of each pattern
\* '^a$|^b$' and its handler.
command_patterns ==
    <<[words |-> {"bangzhu", "help"}, handler |-> "_handle_help"],
      [words |-> {"zhuangtai", "status"}, handler |-> "_handle_status"],
      [words |-> {"chajian", "plugins"}, handler |-> "_handle_plugins"],
      [words |-> {"chongzai", "reload"}, handler |-> "_handle_reload"]>>

\* re.search in place of re.match: the word anywhere in the text.
re_search(pattern, content) ==
    \E i \in 1..Len(content) : LowerWord(content[i]) \in pattern.words

\* re.match(pattern, content, re.IGNORECASE) for '^a$|^b$': the text is one
\* of the words, in any case; '$' also matches before one final line feed.
re_match(pattern, content) ==
    \E w \in pattern.words : lower(content) = <<w>> \/ lower(content) = <<w, "\n">>

\* The index of the first pattern that matches, 0 when none does.
first_match(content) ==
    IF \E i \in 1..Len(command_patterns) : re_match(command_patterns[i], content)
    THEN CHOOSE i \in 1..Len(command_patterns) :
            /\ re_match(command_patterns[i], content)
            /\ \A j \in 1..(i - 1) : ~re_match(command_patterns[j], content)
    ELSE 0

-----------------------------------------------------------------------------
(* execute_command of the plugin classes.                                   *)

\* Python's None where a string is expected.
NoneValue == "<None>"

\* `if plugin_response:` -- a non-empty string.
Truthy(r) == r # "" /\ r # NoneValue

\* The shipped plugin classes and BasePlugin, whose execute_command a
\* subclass inherits when it defines none.
ShippedImpls == {"SchedulerPlugin", "NewsPusherPlugin", "HelpPlugin", "FileConverterPlugin"}

\* What the execute_command of a third-party plugin does: the inherited
\* default, or an override that returns a text, '', None, or raises.
CustomImpls == {"BasePlugin", "returns_text", "returns_empty", "returns_none", "raises"}

Impls == ShippedImpls \cup CustomImpls

\* The characters of the sub-commands handed to execute_command directly.
SubCommandChars == {" ", "help", "status", "add", "frob"}

SubCommands == SeqsUpTo(SubCommandChars, MaxTextLen)

\* The sub-commands a class knows: SchedulerPlugin tests
\* command.startswith, the others compare the whole command (HelpPlugin also
\* against the topics of get_command_help).
supports(impl, command) ==
    CASE impl = "SchedulerPlugin" ->
            command # <<>> /\ Head(command) \in {"add", "list", "delete", "help", "status"}
      [] impl = "NewsPusherPlugin" ->
            \E w \in {"subscribe", "unsubscribe", "news", "help", "status"} : command = <<w>>
      [] impl = "HelpPlugin" ->
            \/ command = <<>>
            \/ \E w \in {"help", "commands", "plugins", "about", "status", "reload",
                          "file_converter", "scheduler", "news_pusher"} : command = <<w>>
      [] impl = "FileConverterPlugin" ->
            \E w \in {"help", "status"} : command = <<w>>
      [] OTHER -> FALSE

\* plugin.execute_command(command, user_id=...): whether it raised and what
\* it returned.  The shipped classes answer a sub-command they do not know
\* with a fixed text (HelpPlugin with the text of get_command_help);
\* BasePlugin raises NotImplementedError.
plugin_execute_command(impl, command) ==
    CASE impl \in ShippedImpls /\ supports(impl, command) ->
            [raised |-> FALSE, response |-> "subcommand_reply"]
      [] impl = "HelpPlugin" /\ ~supports(impl, command) ->
            [raised |-> FALSE, response |-> "help_not_found"]
      [] impl \in ShippedImpls \ {"HelpPlugin"} /\ ~supports(impl, command) ->
            [raised |-> FALSE, response |-> "unknown_command"]
      [] impl = "BasePlugin" -> [raised |-> TRUE, response |-> NoneValue]
      [] impl = "returns_text" -> [raised |-> FALSE, response |-> "plugin_text"]
      [] impl = "returns_empty" -> [raised |-> FALSE, response |-> ""]
      [] impl = "returns_none" -> [raised |-> FALSE, response |-> NoneValue]
      [] OTHER -> [raised |-> TRUE, response |-> NoneValue]

\* The class behind a registered name: the shipped SchedulerPlugin, or the
\* third-party class of plugins/extra.py, behaving as `custom`.
ImplOf(name, custom) == IF PluginClass(name) = "threaded" THEN "SchedulerPlugin" ELSE custom

-----------------------------------------------------------------------------
(* MessageHandler.  `x` holds what one call meets: the caller (user), *)
(* whether the handler has a plugin_manager (wired), how the third-party    *)
(* plugin's execute_command behaves (custom), which default response        *)
(* random.choice picks (pick), and the outcomes of the stop() calls and of  *)
(* the loads inside a reload (o, why).                                      *)

\* _get_default_response: random.choice among four fixed texts.
DefaultResponses == {"default_1", "default_2", "default_3", "default_4"}

\* PluginManager.get_plugin: self.plugins.get(plugin_name).
get_plugin(w, plugin_name) ==
    IF Len(plugin_name) = 1 /\ DictHas(w.plugins, plugin_name[1])
    THEN DictGet(w.plugins, plugin_name[1])
    ELSE None

\* What _handle_plugin_command leaves when the text is no plugin command.
NotPluginCommand(w) ==
    [w |-> w, ret |-> NoneValue, raised |-> FALSE, parsed |-> FALSE, found |-> FALSE,
     plugin_name |-> <<>>, command |-> <<>>, calls |-> <<>>]

\* _handle_plugin_command dropping the plugin whose execute_command raised.
handle_plugin_command_drop(w, content, x) ==
    IF startswith(content, "/")
    THEN LET parts == split_once(Tail(content), " ")
             plugin == get_plugin(w, parts[1])
             command == IF Len(parts) > 1 THEN parts[2] ELSE <<>>
             base == [NotPluginCommand(w) EXCEPT !.parsed = TRUE, !.plugin_name = parts[1],
                                                !.command = command]
         IN  IF ~x.wired THEN base
             ELSE IF plugin # None
             THEN LET impl == ImplOf(w.inst[plugin].name, x.custom)
                      r == plugin_execute_command(impl, command)
                  IN  [base EXCEPT
                         !.w = IF r.raised THEN unload_plugin(w, w.inst[plugin].name, x.o).w ELSE w,
                         !.found = TRUE,
                         !.ret = IF r.raised THEN NoneValue ELSE r.response,
                         !.calls = <<[id |-> plugin, impl |-> impl, command |-> command,
                                      user_id |-> x.user, raised |-> r.raised,
                                      response |-> r.response]>>]
             ELSE [base EXCEPT !.ret = "plugin_absent"]
    ELSE NotPluginCommand(w)

\* _handle_plugin_command handing the plugin the whole text after the prefix.
handle_plugin_command_unsplit(w, content, x) ==
    IF startswith(content, "/")
    THEN LET parts == split_once(Tail(content), " ")
             plugin == get_plugin(w, parts[1])
             command == IF Len(parts) > 1 THEN parts[2] ELSE <<>>
             base == [NotPluginCommand(w) EXCEPT !.parsed = TRUE, !.plugin_name = parts[1],
                                                !.command = command]
         IN  IF ~x.wired THEN base
             ELSE IF plugin # None
             THEN LET impl == ImplOf(w.inst[plugin].name, x.custom)
                      r == plugin_execute_command(impl, Tail(content))
                  IN  [base EXCEPT
                         !.found = TRUE,
                         !.ret = IF r.raised THEN NoneValue ELSE r.response,
                         !.calls = <<[id |-> plugin, impl |-> impl, command |-> Tail(content),
                                      user_id |-> x.user, raised |-> r.raised,
                                      response |-> r.response]>>]
             ELSE [base EXCEPT !.ret = "plugin_absent"]
    ELSE NotPluginCommand(w)

\* _handle_plugin_command: a text that starts with '/' is cut after the
\* prefix at the first space into plugin name and command; with a
\* plugin_manager, a registered plugin gets execute_command(command,
\* user_id=user_id) and its result is returned, an unregistered name gets the
\* 'not loaded' text.  Everything else, and any exception (the except branch
\* logs it), gives None.  calls lists the execute_command calls made.
handle_plugin_command(w, content, x) ==
    IF startswith(content, "/")
    THEN LET parts == split_once(Tail(content), " ")
             plugin == get_plugin(w, parts[1])
             command == IF Len(parts) > 1 THEN parts[2] ELSE <<>>
             base == [NotPluginCommand(w) EXCEPT !.parsed = TRUE, !.plugin_name = parts[1],
                                                !.command = command]
         IN  IF ~x.wired THEN base
             ELSE IF plugin # None
             THEN LET impl == ImplOf(w.inst[plugin].name, x.custom)
                      r == plugin_execute_command(impl, command)
                  IN  [base EXCEPT
                         !.found = TRUE,
                         !.ret = IF r.raised THEN NoneValue ELSE r.response,
                         !.calls = <<[id |-> plugin, impl |-> impl, command |-> command,
                                      user_id |-> x.user, raised |-> r.raised,
                                      response |-> r.response]>>]
             ELSE [base EXCEPT !.ret = "plugin_absent"]
    ELSE NotPluginCommand(w)

\* The system command handlers.  Without a plugin_manager the last three
\* answer that they cannot; _handle_reload calls reload_plugins.
system_command(handler, w, src, en, x) ==
    CASE handler = "_handle_help" -> [w |-> w, reply |-> "help_text"]
      [] handler = "_handle_status" ->
            [w |-> w, reply |-> IF x.wired THEN "status_text" ELSE "status_unavailable"]
      [] handler = "_handle_plugins" ->
            [w |-> w, reply |-> IF x.wired THEN "plugins_text" ELSE "plugins_unavailable"]
      [] OTHER ->
            IF x.wired
            THEN [w |-> reload_plugins(w, src, en, x.o, x.why), reply |-> "reload_done"]
            ELSE [w |-> w, reply |-> "reload_unavailable"]

\* What an entry point of the handler has done: the registry it leaves, the
\* text it matched on, the branch that produced the reply, and the reply.
Answered(pc, content, route, handler, reply) ==
    [w |-> pc.w, content |-> content, route |-> route, handler |-> handler,
     reply |-> reply, raised |-> FALSE, parsed |-> pc.parsed, found |-> pc.found,
     plugin_name |-> pc.plugin_name, command |-> pc.command, calls |-> pc.calls]

\* handle_text_message returning whatever _handle_plugin_command returned.
handle_text_message_no_default(w, src, en, text, x) ==
    LET content == strip(text)
        m == first_match(content)
    IN  IF m # 0
        THEN LET r == system_command(command_patterns[m].handler, w, src, en, x)
             IN  Answered(NotPluginCommand(r.w), content, "system",
                          command_patterns[m].handler, r.reply)
        ELSE LET pc == handle_plugin_command(w, content, x)
             IN  IF pc.raised THEN Answered(pc, content, "error", "", "handle_text_error")
                 ELSE Answered(pc, content, "plugin_command", "", pc.ret)

\* handle_text_message: the stripped text is matched against the patterns
\* in order and the first match's handler answers; otherwise a truthy
\* result of _handle_plugin_command is the reply; otherwise a default
\* response.  The except branch answers with a fixed text.
handle_text_message(w, src, en, text, x) ==
    LET content == strip(text)
        m == first_match(content)
    IN  IF m # 0
        THEN LET r == system_command(command_patterns[m].handler, w, src, en, x)
             IN  Answered(NotPluginCommand(r.w), content, "system",
                          command_patterns[m].handler, r.reply)
        ELSE LET pc == handle_plugin_command(w, content, x)
             IN  IF pc.raised THEN Answered(pc, content, "error", "", "handle_text_error")
                 ELSE IF Truthy(pc.ret) THEN Answered(pc, content, "plugin_command", "", pc.ret)
                 ELSE Answered(pc, content, "default", "", x.pick)

\* MessageHandler.execute_command: as handle_text_message, on the command as
\* given (it is not stripped), with one fixed text in place of the default
\* responses.
execute_command(w, src, en, command, x) ==
    LET m == first_match(command)
    IN  IF m # 0
        THEN LET r == system_command(command_patterns[m].handler, w, src, en, x)
             IN  Answered(NotPluginCommand(r.w), command, "system",
                          command_patterns[m].handler, r.reply)
        ELSE LET pc == handle_plugin_command(w, command, x)
             IN  IF pc.raised THEN Answered(pc, command, "error", "", "execute_command_error")
                 ELSE IF Truthy(pc.ret) THEN Answered(pc, command, "plugin_command", "", pc.ret)
                 ELSE Answered(pc, command, "default", "", "router_unknown_command")

\* PluginManager.execute_plugin_command: ValueError for a name that is not
\* registered; otherwise the plugin's execute_command, whose result or
\* exception goes to the caller.
execute_plugin_command(w, plugin_name, command, x) ==
    LET plugin == get_plugin(w, <<plugin_name>>)
        base == [NotPluginCommand(w) EXCEPT !.parsed = TRUE, !.plugin_name = <<plugin_name>>,
                                           !.command = command]
    IN  IF plugin = None
        THEN [Answered(base, command, "registry", "", NoneValue) EXCEPT !.raised = TRUE]
        ELSE LET impl == ImplOf(w.inst[plugin].name, x.custom)
                 r == plugin_execute_command(impl, command)
                 pc == [base EXCEPT
                          !.found = TRUE,
                          !.calls = <<[id |-> plugin, impl |-> impl, command |-> command,
                                       user_id |-> x.user, raised |-> r.raised,
                                       response |-> r.response]>>]
             IN  [Answered(pc, command, "registry", "", r.response) EXCEPT
                     !.raised = r.raised]

-----------------------------------------------------------------------------
(* ConfigManager (core/config_manager.py).  A configuration tree is the    *)
(* set of paths that exist in it, each with what it holds: "map" (a dict), *)
(* "list", "none" (None, yaml null) or a scalar.  The root is the path      *)
(* <<>>.  A value handed to set, returned by get or given as a default is  *)
(* a tree of its own.                                                       *)

\* The tree with node label S[p] at every path p of the pairs <<p, label>>.
Tree(S) == [p \in {e[1] : e \in S} |-> (CHOOSE e \in S : e[1] = p)[2]]

\* A scalar, None, {} as values.
Scalar(v) == Tree({<< <<>>, v >>})

NoneTree == Scalar("none")

EmptyMap == Scalar("map")

\* q starts with p.
IsPrefix(p, q) == Len(p) <= Len(q) /\ SubSeq(q, 1, Len(p)) = p

\* The value stored at path p of t.
Subtree(t, p) ==
    [q \in {SubSeq(r, Len(p) + 1, Len(r)) : r \in {r \in DOMAIN t : IsPrefix(p, r)}}
        |-> t[p \o q]]

\* t with the value v stored at path p, in place of whatever p held.
Graft(t, p, v) ==
    [q \in {r \in DOMAIN t : ~IsPrefix(p, r)} \cup {p \o r : r \in DOMAIN v} |->
        IF IsPrefix(p, q) THEN v[SubSeq(q, Len(p) + 1, Len(q))] ELSE t[q]]

\* _get_default_config, without the entries that nothing in core/ or main.py
\* reads by path (enable_cmd_qr, hot_reload, supported_formats, scheduler,
\* the rest of news, auto_reload).
DefaultTree ==
    Tree({<< <<>>, "map" >>,
          << <<"wechat">>, "map" >>,
          << <<"wechat", "login_timeout">>, "300" >>,
          << <<"file_processing">>, "map" >>,
          << <<"file_processing", "upload_dir">>, "uploads" >>,
          << <<"file_processing", "output_dir">>, "outputs" >>,
          << <<"file_processing", "max_file_size">>, "50" >>,
          << <<"news">>, "map" >>,
          << <<"news", "sources">>, "list" >>,
          << <<"logging">>, "map" >>,
          << <<"logging", "level">>, "INFO" >>,
          << <<"logging", "format">>, "{time} | {level} - {message}" >>,
          << <<"logging", "file">>, "logs/wechat_bot.log" >>,
          << <<"database">>, "map" >>,
          << <<"database", "path">>, "data/wechat_bot.db" >>,
          << <<"plugins">>, "map" >>,
          << <<"plugins", "enabled">>, "list" >>})

\* t without the entry at path p.
Without(t, p) == [q \in {r \in DOMAIN t : ~IsPrefix(p, r)} |-> t[q]]

\* What config_path holds: no file, a file that yaml.safe_load rejects, or
\* a file that safe_load turns into a value (doc): a mapping, None for an
\* empty file, a list or a scalar for a file that holds just that.
File(kind, doc) == [kind |-> kind, doc |-> doc]

MissingFile == File("missing", NoneTree)

UnparsableFile == File("unparsable", NoneTree)

Files ==
    {MissingFile, UnparsableFile} \cup
    {File("yaml", doc) :
        doc \in {DefaultTree,
                 Graft(DefaultTree, <<"wechat", "login_timeout">>, Scalar("600")),
                 Without(DefaultTree, <<"database">>),
                 Without(DefaultTree, <<"logging">>),
                 Graft(DefaultTree, <<"wechat", "login_timeout">>, NoneTree),
                 NoneTree,
                 Scalar("list")}}

\* _load_config: the default tree when the file is missing or reading and
\* parsing it raises, otherwise whatever safe_load returned.
load_config(f) ==
    IF f.kind = "missing" THEN DefaultTree
    ELSE IF f.kind = "unparsable" THEN DefaultTree
    ELSE f.doc

\* A key is a text of words and "." atoms; two words never stand side by
\* side.  key.split('.'): the words between the dots, "" where two dots (or a
\* dot and an end) meet.
RECURSIVE split(_, _)
split(s, sep) ==
    IF \A i \in 1..Len(s) : s[i] # sep
    THEN << IF s = <<>> THEN "" ELSE s[1] >>
    ELSE LET i == CHOOSE j \in 1..Len(s) :
                     s[j] = sep /\ \A k \in 1..(j - 1) : s[k] # sep
         IN  << IF i = 1 THEN "" ELSE s[1] >> \o split(SubSeq(s, i + 1, Len(s)), sep)

RECURSIVE walk(_, _, _)
\* for k in keys: value = value[k].  value[k] raises TypeError when value is
\* not a dict (a str, an int, a list indexed by a str, None) and KeyError
\* when the dict has no k.
walk(t, at, keys) ==
    IF keys = <<>> THEN [raised |-> "", at |-> at]
    ELSE IF t[at] # "map" THEN [raised |-> "TypeError", at |-> at]
    ELSE IF Append(at, Head(keys)) \notin DOMAIN t THEN [raised |-> "KeyError", at |-> at]
    ELSE walk(t, Append(at, Head(keys)), Tail(keys))

\* get that catches KeyError only.
get_keyerror_only(t, key, default) ==
    LET r == walk(t, <<>>, split(key, "."))
    IN  IF r.raised = "KeyError" THEN [raised |-> "", ret |-> default]
        ELSE IF r.raised # "" THEN [raised |-> r.raised, ret |-> NoneTree]
        ELSE [raised |-> "", ret |-> Subtree(t, r.at)]

\* get(key, default): the value at the path, the default when the walk
\* raises KeyError or TypeError.
get(t, key, default) ==
    LET r == walk(t, <<>>, split(key, "."))
    IN  IF r.raised \in {"KeyError", "TypeError"} THEN [raised |-> "", ret |-> default]
        ELSE [raised |-> "", ret |-> Subtree(t, r.at)]

RECURSIVE descend(_, _, _)
\* for k in keys[:-1]: if k not in config: config[k] = {}; config = config[k].
\* On a config that is not a dict, `k not in config` raises TypeError (int,
\* None), or is a membership test (str, list) followed by an item assignment
\* or an index with a str, which raises TypeError.
descend(t, at, keys) ==
    IF keys = <<>> THEN [raised |-> "", t |-> t, at |-> at]
    ELSE IF t[at] # "map" THEN [raised |-> "TypeError", t |-> t, at |-> at]
    ELSE LET next == Append(at, Head(keys))
             made == IF next \in DOMAIN t THEN t ELSE Graft(t, next, EmptyMap)
         IN  descend(made, next, Tail(keys))

\* set(key, value): walk to the parent of the last key, creating the dicts
\* that are missing, and assign; config[keys[-1]] = value raises TypeError
\* when the parent is not a dict.
set(t, key, value) ==
    LET keys == split(key, ".")
        d    == descend(t, <<>>, SubSeq(keys, 1, Len(keys) - 1))
    IN  IF d.raised # "" THEN [raised |-> d.raised, t |-> d.t]
        ELSE IF d.t[d.at] # "map" THEN [raised |-> "TypeError", t |-> d.t]
        ELSE [raised |-> "", t |-> Graft(d.t, Append(d.at, keys[Len(keys)]), value)]

\* required_keys of validate
required_keys ==
    << <<"wechat", ".", "login_timeout">>,
       <<"file_processing", ".", "upload_dir">>,
       <<"file_processing", ".", "output_dir">>,
       <<"logging", ".", "level">>,
       <<"database", ".", "path">> >>

\* self.get(key) is None
IsNone(t, key) == get(t, key, NoneTree).ret = NoneTree

\* validate that goes through the whole list and reports the last key found
\* missing.
validate_last(t) ==
    LET missing == {i \in 1..Len(required_keys) : IsNone(t, required_keys[i])}
    IN  IF missing = {} THEN [ret |-> TRUE, reported |-> <<>>]
        ELSE [ret |-> FALSE,
              reported |-> required_keys[CHOOSE i \in missing : \A j \in missing : j <= i]]

\* validate: False at the first required key whose value is None, which is
\* logged; True when there is none.
validate(t) ==
    LET missing == {i \in 1..Len(required_keys) : IsNone(t, required_keys[i])}
    IN  IF missing = {} THEN [ret |-> TRUE, reported |-> <<>>]
        ELSE [ret |-> FALSE,
              reported |-> required_keys[CHOOSE i \in missing : \A j \in missing : i <= j]]

-----------------------------------------------------------------------------
(* SchedulerPlugin (plugins/scheduler.py).  scheduled_tasks is the table of *)
(* the SQLite file, one record per row, the row with id i at position i;    *)
(* jobs is the job list of the process-wide default scheduler of the        *)
(* schedule library, which every SchedulerPlugin object of the process      *)
(* registers its callbacks in.  Time is counted in slots: the times of day  *)
(* of TimeWords, day after day, day 1 being the date of DateWords.          *)

\* The days the clock runs through.
MaxDays == 2

\* The rows the table can hold.
MaxTasks == 2

\* The times of day, in the order they come: what strptime("%H:%M") and
\* schedule's at() accept.
TimeWords == <<"09:00", "18:00">>

SlotsPerDay == Len(TimeWords)

MaxSlot == MaxDays * SlotsPerDay

\* What strptime("%Y-%m-%d") accepts: the date of day 1, a Monday.
DateWords == {"2024-01-01"}

\* The texts int() accepts.
IntWords == {"1", "2", "3"}

\* int(word)
IntOf(word) == CASE word = "1" -> 1 [] word = "2" -> 2 [] OTHER -> 3

RECURSIVE split_max(_, _, _)
\* s.split(sep, maxsplit): the pieces between the first maxsplit separators,
\* an empty piece where two separators meet; maxsplit = -1 is s.split(sep).
split_max(s, sep, maxsplit) ==
    IF maxsplit = 0 \/ \A i \in 1..Len(s) : s[i] # sep
    THEN <<s>>
    ELSE LET i == CHOOSE j \in 1..Len(s) :
                     s[j] = sep /\ \A k \in 1..(j - 1) : s[k] # sep
         IN  <<SubSeq(s, 1, i - 1)>>
                \o split_max(SubSeq(s, i + 1, Len(s)), sep,
                             IF maxsplit < 0 THEN maxsplit ELSE maxsplit - 1)

\* time.strptime(s, "%H:%M") does not raise.
IsTime(s) == Len(s) = 1 /\ \E k \in 1..SlotsPerDay : s[1] = TimeWords[k]

\* datetime.strptime(s, "%Y-%m-%d %H:%M") does not raise: the blank of the
\* format stands for one or more whitespace characters.
IsDateTime(s) ==
    /\ Len(s) >= 3
    /\ s[1] \in DateWords
    /\ \A i \in 2..(Len(s) - 1) : s[i] \in WhiteSpace
    /\ IsTime(<<s[Len(s)]>>)

\* int(s) does not raise.
IsInt(s) == Len(s) = 1 /\ s[1] \in IntWords

\* _validate_time_format: every exception gives False.
validate_time_format(task_type, schedule_time) ==
    CASE task_type = <<"daily">> -> IsTime(schedule_time)
      [] task_type = <<"weekly">> ->
            LET parts == split_max(schedule_time, " ", -1)
            IN  /\ Len(parts) = 2
                /\ IsInt(parts[1])
                /\ IntOf(parts[1][1]) \in 0..6
                /\ IsTime(parts[2])
      [] task_type = <<"once">> -> IsDateTime(schedule_time)
      [] OTHER -> FALSE

\* _save_task_to_db: INSERT; the id is AUTOINCREMENT and no row is ever
\* deleted, is_active defaults to 1.
save_task_to_db(tasks, user_id, task_type, schedule_time, message) ==
    Append(tasks, [id |-> Len(tasks) + 1, user_id |-> user_id, task_type |-> task_type,
                   schedule_time |-> schedule_time, message |-> message,
                   is_active |-> 1])

\* The time of day and the day of a slot, and the weekday of a day in the
\* plugin's numbering (0 = Sunday); day 1 is a Monday.
TimeOfSlot(t) == TimeWords[((t - 1) % SlotsPerDay) + 1]

DayOfSlot(t) == ((t - 1) \div SlotsPerDay) + 1

WeekdayOf(day) == day % 7

\* schedule's Job._schedule_next_run: the first time after `now` with the
\* job's time of day (and weekday, for every().monday ... every().sunday).
NextRun(now, weekday, at) ==
    CHOOSE t \in (now + 1)..(now + 7 * SlotsPerDay) :
        /\ TimeOfSlot(t) = at
        /\ weekday >= 0 => WeekdayOf(DayOfSlot(t)) = weekday
        /\ \A u \in (now + 1)..(t - 1) :
              ~(/\ TimeOfSlot(u) = at
                /\ weekday >= 0 => WeekdayOf(DayOfSlot(u)) = weekday)

\* schedule.every()....at(at).do(self._send_scheduled_message, user_id,
\* message, task_id), self being the object `owner`.
Job(now, owner, weekday, at, task) ==
    [owner |-> owner, weekday |-> weekday, at |-> at, user_id |-> task.user_id,
     message |-> task.message, task_id |-> task.id, next_run |-> NextRun(now, weekday, at)]

\* _schedule_task: a daily job for a daily task, a weekly job on the task's
\* weekday for a weekly task, and for a once task a daily job at the time
\* that follows the date; an exception (no second piece, a time at() does
\* not accept) is logged and nothing is registered.
schedule_task(js, now, owner, task) ==
    CASE task.task_type = <<"daily">> ->
            IF IsTime(task.schedule_time)
            THEN Append(js, Job(now, owner, -1, task.schedule_time[1], task))
            ELSE js
      [] task.task_type = <<"weekly">> ->
            LET parts == split_max(task.schedule_time, " ", -1)
            IN  IF Len(parts) >= 2 /\ IsInt(parts[1]) /\ IsTime(parts[2])
                   /\ IntOf(parts[1][1]) \in 0..6
                THEN Append(js, Job(now, owner, IntOf(parts[1][1]), parts[2][1], task))
                ELSE js
      [] task.task_type = <<"once">> ->
            LET parts == split_max(task.schedule_time, " ", -1)
            IN  IF Len(parts) >= 2 /\ IsTime(parts[2])
                THEN Append(js, Job(now, owner, -1, parts[2][1], task))
                ELSE js
      [] OTHER -> js

RECURSIVE schedule_each(_, _, _, _)
\* for task in tasks: self._schedule_task(...)
schedule_each(js, now, owner, rows) ==
    IF rows = <<>> THEN js
    ELSE schedule_each(schedule_task(js, now, owner, Head(rows)), now, owner, Tail(rows))

\* _load_existing_tasks, which SchedulerPlugin.__init__ ends with: every row
\* with is_active = 1 is registered, on top of what the schedule holds.
load_existing_tasks(tasks, js, now, owner) ==
    schedule_each(js, now, owner, SelectSeq(tasks, LAMBDA r : r.is_active = 1))

\* _add_scheduled_task: command.split(' ', 3) gives the type, the schedule
\* time and the message; fewer than four pieces or a time the validation
\* rejects is answered with an error text and nothing is stored.
add_scheduled_task(tasks, js, now, owner, command, user_id) ==
    LET parts == split_max(command, " ", 3)
    IN  IF Len(parts) < 4
        THEN [tasks |-> tasks, jobs |-> js, reply |-> "format_error"]
        ELSE IF ~validate_time_format(parts[2], parts[3])
        THEN [tasks |-> tasks, jobs |-> js, reply |-> "time_error"]
        ELSE LET stored == save_task_to_db(tasks, user_id, parts[2], parts[3], parts[4])
             IN  [tasks |-> stored,
                  jobs |-> schedule_task(js, now, owner, stored[Len(stored)]),
                  reply |-> "added"]

\* _list_scheduled_tasks written without the user_id condition.
list_scheduled_tasks_all(tasks, user_id) ==
    {tasks[i].id : i \in {j \in 1..Len(tasks) : tasks[j].is_active = 1}}

\* _list_scheduled_tasks: the ids of the rows WHERE user_id = ? AND
\* is_active = 1 that the reply shows; none gives the 'no tasks' text.
list_scheduled_tasks(tasks, user_id) ==
    {tasks[i].id : i \in {j \in 1..Len(tasks) :
                              tasks[j].user_id = user_id /\ tasks[j].is_active = 1}}

\* _delete_scheduled_task: UPDATE ... SET is_active = 0 WHERE id = ? AND
\* user_id = ?; a row count of 0 gives the not-found text.  The job stays in
\* the schedule (_unschedule_task only logs).
delete_scheduled_task(tasks, command, user_id) ==
    LET parts == split_max(command, " ", -1)
    IN  IF Len(parts) < 2 THEN [tasks |-> tasks, reply |-> "need_id"]
        ELSE IF ~IsInt(parts[2]) THEN [tasks |-> tasks, reply |-> "not_a_number"]
        ELSE LET task_id == IntOf(parts[2][1])
             IN  IF task_id \in 1..Len(tasks) /\ tasks[task_id].user_id = user_id
                 THEN [tasks |-> [tasks EXCEPT ![task_id].is_active = 0],
                       reply |-> "deleted"]
                 ELSE [tasks |-> tasks, reply |-> "not_found"]

\* The first job of run_pending's sorted(runnable_jobs): of the jobs due at
\* `now`, the one with the earliest next_run, the first in the list among
\* equals; 0 when no job is due.
FirstDue(js, now) ==
    IF \A j \in 1..Len(js) : js[j].next_run > now THEN 0
    ELSE CHOOSE j \in 1..Len(js) :
            /\ js[j].next_run <= now
            /\ \A k \in 1..Len(js) :
                  \/ js[k].next_run > js[j].next_run
                  \/ (js[k].next_run = js[j].next_run /\ k >= j)

\* SELECT is_active FROM scheduled_tasks WHERE id = ?, as the callback of
\* _send_scheduled_message reads it: 1, 0, or no row.
read_is_active(tasks, task_id) ==
    IF task_id \in 1..Len(tasks) THEN tasks[task_id].is_active ELSE -1

\* _send_scheduled_message written to send whatever the row says.
should_send_always(result) == TRUE

\* if result and result[0] == 1: itchat.send_msg(...)
should_send(result) == result = 1

-----------------------------------------------------------------------------
(* The state machine.                                                       *)

\* plugins.enabled: a list of distinct plugin names.
EnabledLists ==
    {s \in UNION {[1..n -> PluginNames] : n \in 0..Cardinality(PluginNames)} :
        \A i, j \in 1..Len(s) : i # j => s[i] # s[j]}

OutcomeMaps == [PluginNames -> Outcomes]

W == Registry(plugins, plugin_modules, inst)

RunningNames(w) ==
    {n \in Range(DictKeys(w.plugins)) : w.inst[DictGet(w.plugins, n)].is_running}

\* What an operation leaves in `last`.
Did(op, name, ok, sub_ok, called, failed) ==
    [op |-> op, name |-> name, ok |-> ok, sub_ok |-> sub_ok, called |-> called,
     failed |-> failed]

Registered(p) == Range(DictValues(p))

\* del self.plugins[name] (or overwriting the entry) drops the registry's
\* reference: a stopped object without a live worker is destroyed, a running
\* one or one whose worker still runs lives on outside the registry.
collect(p, i) ==
    [id \in InstanceIds |->
        IF /\ id \in Allocated(i)
           /\ id \notin Registered(p)
           /\ ~i[id].is_running
           /\ i[id].thread # "alive"
        THEN Gone ELSE i[id]]

SetRegistry(w) ==
    /\ plugins' = w.plugins
    /\ plugin_modules' = w.plugin_modules
    /\ inst' = collect(w.plugins, w.inst)

Alive == bot.phase # "exited"

\* One call's inputs.
X(user, wired, custom, pick, o, why) ==
    [user |-> user, wired |-> wired, custom |-> custom, pick |-> pick, o |-> o,
     why |-> why]

\* No message is being handled.
NoDispatch ==
    [phase |-> "idle", entry |-> "none", text |-> <<>>, user |-> "", wired |-> FALSE,
     content |-> <<>>, route |-> "none", handler |-> "", reply |-> NoneValue,
     raised |-> FALSE, parsed |-> FALSE, found |-> FALSE, plugin_name |-> <<>>,
     command |-> <<>>, calls |-> <<>>]

\* The call `entry` on `text` has returned r (or raised, when r.raised).
Dispatched(entry, text, x, r) ==
    [phase |-> "replied", entry |-> entry, text |-> text, user |-> x.user,
     wired |-> x.wired, content |-> r.content, route |-> r.route, handler |-> r.handler,
     reply |-> r.reply, raised |-> r.raised, parsed |-> r.parsed, found |-> r.found,
     plugin_name |-> r.plugin_name, command |-> r.command, calls |-> r.calls]

OkOutcomes == [n \in PluginNames |-> "ok"]

\* The inputs that a call can read, given what the same call does with the
\* inputs of `probe` (execute_command raising, a default response picked
\* first): the third-party behaviours when it calls a third-party plugin, the
\* default responses when it can fall through to one, the stop() and load
\* outcomes when it reloads.
RelevantInputs(probe, user, wired) ==
    {X(user, wired, custom, pick, o, why) :
        custom \in (IF probe.calls # <<>> /\ probe.calls[1].impl \in CustomImpls
                    THEN CustomImpls ELSE {"BasePlugin"}),
        pick \in (IF probe.route = "default" THEN DefaultResponses ELSE {"default_1"}),
        o \in (IF probe.handler = "_handle_reload" /\ wired THEN OutcomeMaps
               ELSE {OkOutcomes}),
        why \in (IF probe.handler = "_handle_reload" /\ wired
                    /\ \E n \in PluginNames : source[n] # "ok"
                 THEN FailureKinds ELSE {"missing"})}

Probe(user, wired) == X(user, wired, "BasePlugin", "default_1", OkOutcomes, "missing")

\* A MessageHandler used on its own carries no plugin_manager; the bot's
\* handler is wired to the bot's registry in WeChatBot.__init__.
Standalone == plugins = <<>> /\ bot.phase = "constructed"

\* No message is being handled: the handler takes one call at a time.
Idle == router.phase = "idle"

\* No reload_plugins() call is in progress.
NoReload == [pc |-> "idle", enabled_plugins |-> <<>>, todo |-> <<>>]

\* No get_status() call is in progress.
NoStatus ==
    [pc |-> "idle", total_plugins |-> 0, loaded_plugins |-> <<>>, plugin_details |-> <<>>,
     di_used |-> 0, len |-> 0, passed |-> {}, raised |-> FALSE]

\* No ConfigManager.get call is in progress.
NoReader ==
    [pc |-> "idle", key |-> <<>>, default |-> NoneTree, keys |-> <<>>, value |-> NoneTree,
     at |-> <<>>, seen |-> {}, used |-> {}, ret |-> NoneTree]

\* main() is not what runs: the bot was constructed by other code.
NoMain ==
    [pc |-> "none", debug |-> FALSE, ret |-> "none", warned |-> FALSE, valid |-> "unknown",
     start_called |-> FALSE, handlers |-> FALSE, login |-> "none", why |-> "none"]

\* No call is in progress in another thread or under a signal handler.
NoCalls == reloading = NoReload /\ status = NoStatus /\ reader = NoReader

\* No timer callback is running.
NoFiring == [pc |-> "idle", job |-> 0, result |-> -1, began_active |-> FALSE]

\* The table holds no row, the schedule no job, nothing has been sent.  Where
\* no command adds a task the table stays empty, and constructing a
\* SchedulerPlugin registers nothing.
NoTimers ==
    /\ scheduled_tasks = <<>>
    /\ jobs = <<>>
    /\ outbox = <<>>
    /\ clock = 0
    /\ firing = NoFiring

\* No _push_daily_news() call is in progress.
NoPush == [pc |-> "idle", si_used |-> 0, passed |-> {}, delivered |-> {}, stayed |-> {}]

\* Nobody has subscribed.
NoNews == subscribers = {} /\ push = NoPush

\* The ConfigManager was constructed with no file at config_path.
DefaultStore == config = DefaultTree /\ file = MissingFile /\ main = NoMain

\* WeChatBot.__init__ has run: an empty registry, the handler wired to it,
\* is_running False.  The plugins directory holds the shipped plugins.
Init ==
    /\ plugins = <<>>
    /\ plugin_modules = <<>>
    /\ inst = [id \in InstanceIds |-> NoInstance]
    /\ source = [n \in PluginNames |-> IF n = "extra" THEN "unloadable" ELSE "ok"]
    /\ enabled \in EnabledLists
    /\ bot = [is_running |-> FALSE, phase |-> "constructed"]
    /\ last = Did("init", "", TRUE, FALSE, <<>>, {})
    /\ router = NoDispatch
    /\ NoCalls
    /\ NoTimers
    /\ NoNews
    /\ DefaultStore

\* PluginManager.load_plugin(name)
LoadPlugin(n, why) ==
    /\ Alive
    /\ NewId(inst) <= MaxInstances
    /\ LET r == load_plugin(W, source, n, why)
       IN  /\ SetRegistry(r.w)
           /\ last' = Did("load_plugin", n, r.ret # None, FALSE, <<>>, {})
    /\ UNCHANGED <<call_vars, store_vars, router, source, enabled, bot, timer_vars, news_vars>>

\* PluginManager.unload_plugin(name)
UnloadPlugin(n, o) ==
    /\ Alive
    /\ LET r == unload_plugin(W, n, o)
       IN  /\ SetRegistry(r.w)
           /\ last' = Did("unload_plugin", n, r.ret, FALSE, <<>>,
                          IF r.stop_raised THEN {DictGet(plugins, n)} ELSE {})
    /\ UNCHANGED <<call_vars, store_vars, router, source, enabled, bot, timer_vars, news_vars>>

\* PluginManager.reload_plugin(name)
ReloadPlugin(n, o, why) ==
    /\ Alive
    /\ NewId(inst) <= MaxInstances
    /\ LET r == reload_plugin(W, source, n, o, why)
       IN  /\ SetRegistry(r.w)
           /\ last' = Did("reload_plugin", n, r.ret, r.sub_ok, <<>>, {})
    /\ UNCHANGED <<call_vars, store_vars, router, source, enabled, bot, timer_vars, news_vars>>

\* PluginManager.load_plugins()
LoadPlugins(why) ==
    /\ Alive
    /\ Cardinality(Allocated(inst)) + Len(enabled) <= MaxInstances
    /\ SetRegistry(load_plugins(W, source, enabled, why))
    /\ last' = Did("load_plugins", "", TRUE, FALSE, <<>>, {})
    /\ UNCHANGED <<call_vars, store_vars, router, source, enabled, bot, timer_vars, news_vars>>

\* PluginManager.reload_plugins(), also WeChatBot.reload_plugins()
ReloadPlugins(o, why) ==
    /\ Alive
    /\ Cardinality(Allocated(inst)) + Len(enabled) <= MaxInstances
    /\ SetRegistry(reload_plugins(W, source, enabled, o, why))
    /\ last' = Did("reload_plugins", "", TRUE, FALSE, <<>>, {})
    /\ UNCHANGED <<call_vars, store_vars, router, source, enabled, bot, timer_vars, news_vars>>

\* PluginManager.start_plugins()
StartPlugins(o) ==
    /\ Alive
    /\ LET r == start_plugins(W, o)
       IN  /\ inst' = r.inst
           /\ last' = Did("start_plugins", "", ~r.raised, FALSE, r.called, r.failed)
    /\ UNCHANGED <<call_vars, store_vars, router, plugins, plugin_modules, source, enabled, bot, timer_vars, news_vars>>

\* PluginManager.stop_plugins()
StopPlugins(o) ==
    /\ Alive
    /\ LET r == stop_plugins(W, o)
       IN  /\ inst' = r.inst
           /\ last' = Did("stop_plugins", "", ~r.raised, FALSE, r.called, r.failed)
    /\ UNCHANGED <<call_vars, store_vars, router, plugins, plugin_modules, source, enabled, bot, timer_vars, news_vars>>

\* WeChatBot.start() as main() calls it: register the handlers, start the
\* plugins of the registry, log in, set is_running and enter itchat.run().
\* A failed login re-raises and main() returns 1.
BotStart(o, login_ok) ==
    /\ bot.phase = "constructed"
    /\ LET r == start_plugins(W, o)
       IN  /\ inst' = r.inst
           /\ last' = Did("bot_start", "", login_ok /\ ~r.raised, FALSE, r.called,
                          r.failed)
    /\ bot' = IF login_ok THEN [is_running |-> TRUE, phase |-> "running"]
              ELSE [is_running |-> FALSE, phase |-> "exited"]
    /\ UNCHANGED <<call_vars, store_vars, router, plugins, plugin_modules, source, enabled, timer_vars, news_vars>>

\* MessageHandler._handle_reload: the 'reload' / '重载' system command, once
\* the message loop runs.
HandleReload(o, why) ==
    /\ bot.phase = "running"
    /\ Cardinality(Allocated(inst)) + Len(enabled) <= MaxInstances
    /\ SetRegistry(reload_plugins(W, source, enabled, o, why))
    /\ last' = Did("handle_reload", "", TRUE, FALSE, <<>>, {})
    /\ UNCHANGED <<call_vars, store_vars, router, source, enabled, bot, timer_vars, news_vars>>

\* signal_handler: bot.stop() (stop the plugins, log out, clear is_running;
\* a failing logout is caught and logged), then sys.exit(0).
Shutdown(o, logout_ok) ==
    /\ Alive
    /\ LET r == stop_plugins(W, o)
       IN  /\ inst' = r.inst
           /\ last' = Did("bot_stop", "", logout_ok /\ ~r.raised, FALSE, r.called,
                          r.failed)
    /\ bot' = [is_running |-> IF logout_ok THEN FALSE ELSE bot.is_running,
               phase |-> "exited"]
    /\ UNCHANGED <<call_vars, store_vars, router, plugins, plugin_modules, source, enabled, timer_vars, news_vars>>

\* The operator adds, removes or edits a third-party file plugins/<name>.py;
\* the shipped files stay what they are.
EditSource(n, k) ==
    /\ Alive
    /\ source[n] # k
    /\ PluginClass(n) = "custom"
    /\ source' = [source EXCEPT ![n] = k]
    /\ last' = Did("edit_source", n, TRUE, FALSE, <<>>, {})
    /\ UNCHANGED <<call_vars, store_vars, router, plugins, plugin_modules, inst, enabled, bot, timer_vars, news_vars>>

\* SchedulerPlugin._run_scheduler: the worker leaves its loop once it reads
\* is_scheduler_running False.
WorkerExit(id) ==
    /\ Alive
    /\ inst[id].thread = "alive"
    /\ ~inst[id].loop_flag
    /\ inst' = collect(plugins, [inst EXCEPT ![id].thread = "dead"])
    /\ last' = Did("worker_exit", "", TRUE, FALSE, <<>>, {})
    /\ UNCHANGED <<call_vars, store_vars, router, plugins, plugin_modules, source, enabled, bot, timer_vars, news_vars>>

Next ==
    \/ \E n \in PluginNames, why \in FailureKinds : LoadPlugin(n, why)
    \/ \E n \in PluginNames, o \in OutcomeMaps : UnloadPlugin(n, o)
    \/ \E n \in PluginNames, o \in OutcomeMaps, why \in FailureKinds : ReloadPlugin(n, o, why)
    \/ \E why \in FailureKinds : LoadPlugins(why)
    \/ \E o \in OutcomeMaps, why \in FailureKinds : ReloadPlugins(o, why)
    \/ \E o \in OutcomeMaps : StartPlugins(o)
    \/ \E o \in OutcomeMaps : StopPlugins(o)
    \/ \E o \in OutcomeMaps, login_ok \in BOOLEAN : BotStart(o, login_ok)
    \/ \E o \in OutcomeMaps, why \in FailureKinds : HandleReload(o, why)
    \/ \E o \in OutcomeMaps, logout_ok \in BOOLEAN : Shutdown(o, logout_ok)
    \/ \E n \in PluginNames, k \in SourceKinds : EditSource(n, k)
    \/ \E id \in InstanceIds : WorkerExit(id)

Spec == Init /\ [][Next]_vars

-----------------------------------------------------------------------------
(* The router: the bot's handler answering texts that itchat delivers and   *)
(* commands given to WeChatBot.execute_command, over a registry that stays  *)
(* as it is unless a 'reload' command changes it.                           *)

EmptyRegistry == Registry(<<>>, <<>>, [id \in InstanceIds |-> NoInstance])

AllLoadable == [n \in PluginNames |-> "ok"]

\* plugins.enabled naming both plugin files.
BothEnabled == <<"scheduler", "extra">>

\* The registry after load_plugins().
LoadedRegistry == load_plugins(EmptyRegistry, AllLoadable, BothEnabled, "missing")

\* The registry after load_plugins() and start_plugins().
StartedRegistry ==
    [LoadedRegistry EXCEPT !.inst = start_plugins(LoadedRegistry, OkOutcomes).inst]

\* The bot is constructed or in its message loop; its registry is empty, or
\* holds both plugins, stopped or running.
RouterInit ==
    /\ \E w \in {EmptyRegistry, LoadedRegistry, StartedRegistry} :
          /\ plugins = w.plugins
          /\ plugin_modules = w.plugin_modules
          /\ inst = w.inst
    /\ source = AllLoadable
    /\ enabled = BothEnabled
    /\ bot \in {[is_running |-> FALSE, phase |-> "constructed"],
                [is_running |-> TRUE, phase |-> "running"]}
    /\ last = Did("init", "", TRUE, FALSE, <<>>, {})
    /\ router = NoDispatch
    /\ NoCalls
    /\ NoTimers
    /\ NoNews
    /\ DefaultStore

\* The text handler registered with itchat: handle_text_message(msg) for a
\* text from `user`; also the same call on a handler used on its own.
HandleTextMessage ==
    /\ Idle
    /\ \E text \in Texts, user \in UserIds, wired \in BOOLEAN :
          /\ IF wired THEN bot.phase = "running" ELSE Standalone
          /\ LET probe == handle_text_message(W, source, enabled, text, Probe(user, wired))
             IN  /\ (probe.handler = "_handle_reload" /\ wired)
                       => Cardinality(Allocated(inst)) + Len(enabled) <= MaxInstances
                 /\ \E x \in RelevantInputs(probe, user, wired) :
                       LET r == handle_text_message(W, source, enabled, text, x)
                       IN  /\ SetRegistry(r.w)
                           /\ router' = Dispatched("handle_text_message", text, x, r)
    /\ last' = Did("handle_text_message", "", TRUE, FALSE, <<>>, {})
    /\ UNCHANGED <<call_vars, store_vars, source, enabled, bot, timer_vars, news_vars>>

\* WeChatBot.execute_command(command, user_id), which is
\* MessageHandler.execute_command.
ExecuteCommand ==
    /\ Idle
    /\ \E command \in Texts, user \in UserIds, wired \in BOOLEAN :
          /\ IF wired THEN Alive ELSE Standalone
          /\ LET probe == execute_command(W, source, enabled, command, Probe(user, wired))
             IN  /\ (probe.handler = "_handle_reload" /\ wired)
                       => Cardinality(Allocated(inst)) + Len(enabled) <= MaxInstances
                 /\ \E x \in RelevantInputs(probe, user, wired) :
                       LET r == execute_command(W, source, enabled, command, x)
                       IN  /\ SetRegistry(r.w)
                           /\ router' = Dispatched("execute_command", command, x, r)
    /\ last' = Did("execute_command", "", TRUE, FALSE, <<>>, {})
    /\ UNCHANGED <<call_vars, store_vars, source, enabled, bot, timer_vars, news_vars>>

\* The names handed to execute_plugin_command: the plugin files and one name
\* that no file has.
RegistryNames == PluginNames \cup {"help"}

RegistryCommands == {c \in SubCommands : Len(c) <= 1}

\* PluginManager.execute_plugin_command(plugin_name, command, user_id=user)
ExecutePluginCommand ==
    /\ Idle
    /\ Alive
    /\ \E name \in RegistryNames, command \in RegistryCommands, user \in UserIds,
          custom \in CustomImpls :
          LET x == X(user, TRUE, custom, "default_1", OkOutcomes, "missing")
              r == execute_plugin_command(W, name, command, x)
          IN  /\ router' = Dispatched("execute_plugin_command", command, x, r)
              /\ last' = Did("execute_plugin_command", name, ~r.raised, FALSE, <<>>, {})
    /\ UNCHANGED <<call_vars, store_vars, plugins, plugin_modules, inst, source, enabled, bot, timer_vars, news_vars>>

\* The caller has the reply (itchat sends it to the user); the handler is
\* ready for the next message.
SendReply ==
    /\ router.phase = "replied"
    /\ router' = NoDispatch
    /\ last' = Did("send_reply", "", TRUE, FALSE, <<>>, {})
    /\ UNCHANGED <<call_vars, store_vars, plugins, plugin_modules, inst, source, enabled, bot, timer_vars, news_vars>>

RouterNext ==
    \/ HandleTextMessage
    \/ ExecuteCommand
    \/ ExecutePluginCommand
    \/ SendReply

RouterSpec == RouterInit /\ [][RouterNext]_vars

-----------------------------------------------------------------------------
(* execute_command of each plugin class, called on its own.                 *)

\* plugin.execute_command(command, user_id=user) on an object of class impl.
CallExecuteCommand ==
    /\ Idle
    /\ \E impl \in Impls, command \in SubCommands, user \in UserIds :
          LET r == plugin_execute_command(impl, command)
          IN  /\ router' =
                    [NoDispatch EXCEPT
                       !.phase = "replied", !.entry = "plugin.execute_command",
                       !.text = command, !.user = user, !.command = command,
                       !.reply = r.response, !.raised = r.raised,
                       !.calls = <<[id |-> None, impl |-> impl, command |-> command,
                                    user_id |-> user, raised |-> r.raised,
                                    response |-> r.response]>>]
              /\ last' = Did("plugin.execute_command", "", ~r.raised, FALSE, <<>>, {})
    /\ UNCHANGED <<call_vars, store_vars, plugins, plugin_modules, inst, source, enabled, bot, timer_vars, news_vars>>

CommandInit == Init /\ enabled = <<>>

CommandNext ==
    \/ CallExecuteCommand
    \/ SendReply

CommandSpec == CommandInit /\ [][CommandNext]_vars

-----------------------------------------------------------------------------
(* reload_plugins() and the signal handler.  The 'reload' command runs     *)
(* reload_plugins in the main thread, inside the message loop; Python runs  *)
(* signal_handler in the same thread, between two statements of whatever    *)
(* that thread is doing.  reload_plugins is therefore taken one loop         *)
(* iteration at a time, and the handler (Shutdown) may run in between;      *)
(* sys.exit(0) then ends the process with the reload where it was.          *)

\* The registry after load_plugin(name), started or not.
OneLoaded(name, started) ==
    LET w == load_plugin(EmptyRegistry, AllLoadable, name, "missing").w
    IN  IF started THEN [w EXCEPT !.inst = start_plugins(w, OkOutcomes).inst] ELSE w

\* The bot is in its message loop with at most one plugin loaded.
ReloadRaceInit ==
    /\ \E w \in {EmptyRegistry} \cup
                {OneLoaded(n, started) : n \in PluginNames, started \in BOOLEAN} :
          /\ plugins = w.plugins
          /\ plugin_modules = w.plugin_modules
          /\ inst = w.inst
    /\ source \in [PluginNames -> SourceKinds]
    /\ source["scheduler"] = "ok"
    /\ enabled \in EnabledLists
    /\ bot = [is_running |-> TRUE, phase |-> "running"]
    /\ last = Did("init", "", TRUE, FALSE, <<>>, {})
    /\ router = NoDispatch
    /\ NoCalls
    /\ NoTimers
    /\ NoNews
    /\ DefaultStore

\* Where reload_plugins stands once the names in `todo` are left to unload
\* (pc "unloading") or to load (pc "loading"): an empty unload list moves on
\* to the load loop, an empty load list ends the call.
ReloadAt(pc, enabled_plugins, todo) ==
    IF todo # <<>>
    THEN [pc |-> pc, enabled_plugins |-> enabled_plugins, todo |-> todo]
    ELSE IF pc = "unloading" /\ enabled_plugins # <<>>
    THEN [pc |-> "loading", enabled_plugins |-> enabled_plugins, todo |-> enabled_plugins]
    ELSE NoReload

\* reload_plugins(), up to its first loop: plugins.enabled and the list of
\* loaded names are read.
ReloadEnter ==
    /\ bot.phase = "running"
    /\ reloading.pc = "idle"
    /\ Cardinality(Allocated(inst)) + Len(enabled) <= MaxInstances
    /\ reloading' = ReloadAt("unloading", enabled, DictKeys(plugins))
    /\ last' = Did("reload_enter", "", TRUE, FALSE, <<>>, {})
    /\ UNCHANGED <<plugins, plugin_modules, inst, source, enabled, bot, router, status,
                   reader, store_vars, timer_vars, news_vars>>

\* One iteration of the first loop: self.unload_plugin(plugin_name).
ReloadUnloadNext ==
    /\ bot.phase = "running"
    /\ reloading.pc = "unloading"
    /\ \E o \in OutcomeMaps :
          LET r == unload_plugin(W, Head(reloading.todo), o)
          IN  /\ SetRegistry(r.w)
              /\ last' = Did("reload_unload", Head(reloading.todo), r.ret, FALSE, <<>>, {})
    /\ reloading' = ReloadAt("unloading", reloading.enabled_plugins, Tail(reloading.todo))
    /\ UNCHANGED <<source, enabled, bot, router, status, reader, store_vars, timer_vars, news_vars>>

\* One iteration of the second loop: self.load_plugin(plugin_name).
ReloadLoadNext ==
    /\ bot.phase = "running"
    /\ reloading.pc = "loading"
    /\ \E why \in FailureKinds :
          LET r == load_plugin(W, source, Head(reloading.todo), why)
          IN  /\ SetRegistry(r.w)
              /\ last' = Did("reload_load", Head(reloading.todo), r.ret # None, FALSE,
                             <<>>, {})
    /\ reloading' = ReloadAt("loading", reloading.enabled_plugins, Tail(reloading.todo))
    /\ UNCHANGED <<source, enabled, bot, router, status, reader, store_vars, timer_vars, news_vars>>

ReloadRaceNext ==
    \/ ReloadEnter
    \/ ReloadUnloadNext
    \/ ReloadLoadNext
    \/ \E o \in OutcomeMaps, logout_ok \in BOOLEAN : Shutdown(o, logout_ok)

ReloadRaceSpec == ReloadRaceInit /\ [][ReloadRaceNext]_vars
-----------------------------------------------------------------------------
(* get_status() while another thread loads and unloads.  get_status reads  *)
(* self.plugins three times (len, keys, items) and then once per item; a    *)
(* load_plugin or unload_plugin call of another thread may run between any  *)
(* two of these reads.                                                      *)

StatusRaceInit ==
    /\ plugins = <<>>
    /\ plugin_modules = <<>>
    /\ inst = [id \in InstanceIds |-> NoInstance]
    /\ source = AllLoadable
    /\ enabled = BothEnabled
    /\ bot = [is_running |-> FALSE, phase |-> "constructed"]
    /\ last = Did("init", "", TRUE, FALSE, <<>>, {})
    /\ router = NoDispatch
    /\ NoCalls
    /\ NoTimers
    /\ NoNews
    /\ DefaultStore

\* next() on the iterator of d.items().  The iterator remembers the size of
\* the dict when it was made (di_used), how many items it has left to give
\* (len) and how far it has walked the entries: `passed` are the keys whose
\* entry lies behind it (a deleted key's entry is gone, and the key gets a
\* new entry at the end when it is inserted again).  A changed size raises
\* RuntimeError; an entry found after len items were given raises
\* RuntimeError in CPython 3.8 and later (strict) and is given out by older
\* interpreters.
dictiter_next(d, it, strict) ==
    IF it.di_used # Len(d) THEN [kind |-> "RuntimeError", key |-> "", val |-> None]
    ELSE LET ahead == {i \in 1..Len(d) : d[i].key \notin it.passed}
         IN  IF ahead = {} THEN [kind |-> "StopIteration", key |-> "", val |-> None]
             ELSE IF it.len = 0 /\ strict
             THEN [kind |-> "RuntimeError", key |-> "", val |-> None]
             ELSE LET i == CHOOSE j \in ahead : \A k \in ahead : j <= k
                  IN  [kind |-> "item", key |-> d[i].key, val |-> d[i].val]

\* get_status, line 162: status = {"total_plugins": len(self.plugins), ...
StatusBegin ==
    /\ Alive
    /\ status.pc = "idle"
    /\ status' = [NoStatus EXCEPT !.pc = "counted", !.total_plugins = Len(plugins)]
    /\ last' = Did("get_status", "", TRUE, FALSE, <<>>, {})
    /\ UNCHANGED <<plugins, plugin_modules, inst, source, enabled, bot, router, reloading,
                   reader, store_vars, timer_vars, news_vars>>

\* line 164: "loaded_plugins": list(self.plugins.keys())
StatusKeys ==
    /\ status.pc = "counted"
    /\ status' = [status EXCEPT !.pc = "listed", !.loaded_plugins = DictKeys(plugins)]
    /\ last' = Did("get_status", "", TRUE, FALSE, <<>>, {})
    /\ UNCHANGED <<plugins, plugin_modules, inst, source, enabled, bot, router, reloading,
                   reader, store_vars, timer_vars, news_vars>>

\* line 168: the iterator of self.plugins.items() is made.
StatusIter ==
    /\ status.pc = "listed"
    /\ status' = [status EXCEPT !.pc = "iterating", !.di_used = Len(plugins),
                                !.len = Len(plugins), !.passed = {}]
    /\ last' = Did("get_status", "", TRUE, FALSE, <<>>, {})
    /\ UNCHANGED <<plugins, plugin_modules, inst, source, enabled, bot, router, reloading,
                   reader, store_vars, timer_vars, news_vars>>

\* lines 168-176: the next item and the loop body, which stores the
\* descriptor of the plugin under its name; the end of the loop returns the
\* status, a RuntimeError of the iterator leaves get_status.
StatusNext ==
    /\ status.pc = "iterating"
    /\ \E strict \in BOOLEAN :
          LET n == dictiter_next(plugins, status, strict)
          IN  status' =
                 CASE n.kind = "RuntimeError" ->
                         [status EXCEPT !.pc = "returned", !.raised = TRUE]
                   [] n.kind = "StopIteration" -> [status EXCEPT !.pc = "returned"]
                   [] OTHER ->
                         [status EXCEPT
                            !.len = IF @ = 0 THEN 0 ELSE @ - 1,
                            !.passed = @ \cup {n.key},
                            !.plugin_details =
                               DictSet(@, n.key,
                                       [name |-> self_name(inst[n.val]),
                                        is_running |-> inst[n.val].is_running])]
    /\ last' = Did("get_status", "", TRUE, FALSE, <<>>, {})
    /\ UNCHANGED <<plugins, plugin_modules, inst, source, enabled, bot, router, reloading,
                   reader, store_vars, timer_vars, news_vars>>

\* The caller has the status (or the exception).
StatusTaken ==
    /\ status.pc = "returned"
    /\ status' = NoStatus
    /\ last' = Did("status_taken", "", TRUE, FALSE, <<>>, {})
    /\ UNCHANGED <<plugins, plugin_modules, inst, source, enabled, bot, router, reloading,
                   reader, store_vars, timer_vars, news_vars>>

\* unload_plugin(name) in another thread: the entry of a deleted key no
\* longer lies behind the iterator.
UnloadDuringStatus ==
    /\ \E n \in PluginNames, o \in OutcomeMaps :
          LET r == unload_plugin(W, n, o)
          IN  /\ SetRegistry(r.w)
              /\ last' = Did("unload_plugin", n, r.ret, FALSE, <<>>, {})
              /\ status' = [status EXCEPT
                              !.passed = IF DictHas(r.w.plugins, n) THEN @ ELSE @ \ {n}]
    /\ UNCHANGED <<source, enabled, bot, router, reloading, reader, store_vars, timer_vars, news_vars>>

StatusRaceNext ==
    \/ StatusBegin
    \/ StatusKeys
    \/ StatusIter
    \/ StatusNext
    \/ StatusTaken
    \/ \E n \in PluginNames, why \in FailureKinds : LoadPlugin(n, why)
    \/ UnloadDuringStatus

StatusRaceSpec == StatusRaceInit /\ [][StatusRaceNext]_vars
-----------------------------------------------------------------------------
(* The ConfigManager on its own: constructed from the file at config_path,  *)
(* then read, written, validated and reloaded by one caller at a time,      *)
(* while the operator may replace the file.                                 *)

\* The keys handed to get and set: a required scalar, a key below that
\* scalar, a key below a list, a key under a section that does not exist, a
\* required key of another section, and a whole section.
ConfigKeys ==
    {<<"wechat", ".", "login_timeout">>,
     <<"wechat", ".", "login_timeout", ".", "unit">>,
     <<"news", ".", "sources", ".", "first">>,
     <<"cache", ".", "ttl", ".", "seconds">>,
     <<"database", ".", "path">>,
     <<"logging">>}

\* The values handed to set: a scalar and None.
ConfigValues == {Scalar("v"), NoneTree}

\* The defaults handed to get: None (the default of the parameter) and a
\* scalar.
ConfigDefaults == {NoneTree, Scalar("d")}

\* What a ConfigManager call leaves in `last`: its arguments, what it
\* returned or the exception it raised, and the tree it was called on.
ConfigDid(op, key, arg, ret, raised, before) ==
    [op |-> op, key |-> key, arg |-> arg, ret |-> ret, raised |-> raised,
     before |-> before]

\* ConfigManager(config_path)
ConfigInit ==
    /\ file \in Files
    /\ config = load_config(file)
    /\ main = NoMain
    /\ last = ConfigDid("construct", <<>>, NoneTree, NoneTree, "", NoneTree)
    /\ plugins = <<>>
    /\ plugin_modules = <<>>
    /\ inst = [id \in InstanceIds |-> NoInstance]
    /\ source = AllLoadable
    /\ enabled = BothEnabled
    /\ bot = [is_running |-> FALSE, phase |-> "constructed"]
    /\ router = NoDispatch
    /\ NoCalls
    /\ NoTimers
    /\ NoNews

\* config.get(key, default)
CallGet ==
    /\ \E key \in ConfigKeys, default \in ConfigDefaults :
          LET r == get(config, key, default)
          IN  last' = ConfigDid("get", key, default, r.ret, r.raised, config)
    /\ UNCHANGED <<config, file, main, plugins, plugin_modules, inst, source, enabled, bot,
                   router, call_vars, timer_vars, news_vars>>

\* config.set(key, value)
CallSet ==
    /\ \E key \in ConfigKeys, value \in ConfigValues :
          LET r == set(config, key, value)
          IN  /\ config' = r.t
              /\ last' = ConfigDid("set", key, value, NoneTree, r.raised, config)
    /\ UNCHANGED <<file, main, plugins, plugin_modules, inst, source, enabled, bot, router,
                   call_vars, timer_vars, news_vars>>

\* config.reload()
CallReload ==
    /\ config' = load_config(file)
    /\ last' = ConfigDid("reload", <<>>, NoneTree, NoneTree, "", config)
    /\ UNCHANGED <<file, main, plugins, plugin_modules, inst, source, enabled, bot, router,
                   call_vars, timer_vars, news_vars>>

\* config.validate()
CallValidate ==
    /\ LET r == validate(config)
       IN  last' = ConfigDid("validate", r.reported, NoneTree,
                             IF r.ret THEN Scalar("True") ELSE Scalar("False"), "", config)
    /\ UNCHANGED <<config, file, main, plugins, plugin_modules, inst, source, enabled, bot,
                   router, call_vars, timer_vars, news_vars>>

\* The operator writes, replaces or removes the file at config_path.
EditFile ==
    /\ \E f \in Files :
          /\ f # file
          /\ file' = f
    /\ last' = ConfigDid("edit_file", <<>>, NoneTree, NoneTree, "", config)
    /\ UNCHANGED <<config, main, plugins, plugin_modules, inst, source, enabled, bot,
                   router, call_vars, timer_vars, news_vars>>

ConfigNext ==
    \/ CallGet
    \/ CallSet
    \/ CallReload
    \/ CallValidate
    \/ EditFile

ConfigSpec == ConfigInit /\ [][ConfigNext]_vars
-----------------------------------------------------------------------------
(* A get in one thread while another thread reloads.  get reads             *)
(* self.config once (value = self.config) and then follows the key segment  *)
(* by segment through what it holds; reload() assigns self.config.          *)

\* value = value[k] made on the tree that self.config holds by now, in
\* place of the one that `value` was taken from.
get_step_shared(held, current, at, k) ==
    IF at \notin DOMAIN current
    THEN [raised |-> "KeyError", at |-> at, value |-> current]
    ELSE [raised |-> walk(current, at, <<k>>).raised, at |-> walk(current, at, <<k>>).at,
          value |-> current]

\* value = value[k]: one step of the walk, in the tree that `value` was
\* taken from when get started.
get_step(held, current, at, k) ==
    [raised |-> walk(held, at, <<k>>).raised, at |-> walk(held, at, <<k>>).at,
     value |-> held]

\* The files of this scenario: none, one that changes a value, one that
\* lacks a section, an empty one.
ReaderFiles ==
    {MissingFile,
     File("yaml", Graft(DefaultTree, <<"wechat", "login_timeout">>, Scalar("600"))),
     File("yaml", Without(DefaultTree, <<"database">>)),
     File("yaml", NoneTree)}

ReaderInit == ConfigInit /\ file \in ReaderFiles

\* get(key, default), lines 85-86: the key is split and self.config is
\* read.  seen are the trees self.config holds during the call, used the
\* trees in which a segment was looked up.
GetBegin ==
    /\ reader.pc = "idle"
    /\ \E key \in ConfigKeys, default \in ConfigDefaults :
          reader' = [pc |-> "walking", key |-> key, default |-> default,
                     keys |-> split(key, "."), value |-> config, at |-> <<>>,
                     seen |-> {config}, used |-> {}, ret |-> NoneTree]
    /\ last' = ConfigDid("get_begin", <<>>, NoneTree, NoneTree, "", config)
    /\ UNCHANGED <<config, file, main, plugins, plugin_modules, inst, source, enabled, bot,
                   router, reloading, status, timer_vars, news_vars>>

\* lines 89-90 and 92-93: one segment; KeyError and TypeError end the call
\* with the default.
GetStep ==
    /\ reader.pc = "walking"
    /\ reader.keys # <<>>
    /\ LET r == get_step(reader.value, config, reader.at, Head(reader.keys))
       IN  reader' =
              IF r.raised # ""
              THEN [reader EXCEPT !.pc = "returned", !.ret = reader.default,
                                  !.value = r.value, !.used = @ \cup {r.value}]
              ELSE [reader EXCEPT !.keys = Tail(@), !.at = r.at, !.value = r.value,
                                  !.used = @ \cup {r.value}]
    /\ last' = ConfigDid("get_step", <<>>, NoneTree, NoneTree, "", config)
    /\ UNCHANGED <<config, file, main, plugins, plugin_modules, inst, source, enabled, bot,
                   router, reloading, status, timer_vars, news_vars>>

\* line 91: return value
GetReturn ==
    /\ reader.pc = "walking"
    /\ reader.keys = <<>>
    /\ reader' = [reader EXCEPT !.pc = "returned", !.ret = Subtree(reader.value, reader.at)]
    /\ last' = ConfigDid("get_return", <<>>, NoneTree, NoneTree, "", config)
    /\ UNCHANGED <<config, file, main, plugins, plugin_modules, inst, source, enabled, bot,
                   router, reloading, status, timer_vars, news_vars>>

\* The caller has the value.
GetTaken ==
    /\ reader.pc = "returned"
    /\ reader' = NoReader
    /\ last' = ConfigDid("get_taken", <<>>, NoneTree, NoneTree, "", config)
    /\ UNCHANGED <<config, file, main, plugins, plugin_modules, inst, source, enabled, bot,
                   router, reloading, status, timer_vars, news_vars>>

\* reload() in another thread: self.config = self._load_config()
ReloadDuringGet ==
    /\ config' = load_config(file)
    /\ reader' = IF reader.pc = "walking"
                 THEN [reader EXCEPT !.seen = @ \cup {load_config(file)}]
                 ELSE reader
    /\ last' = ConfigDid("reload", <<>>, NoneTree, NoneTree, "", config)
    /\ UNCHANGED <<file, main, plugins, plugin_modules, inst, source, enabled, bot, router,
                   reloading, status, timer_vars, news_vars>>

\* The operator writes, replaces or removes the file at config_path.
ReplaceFile ==
    /\ \E f \in ReaderFiles :
          /\ f # file
          /\ file' = f
    /\ last' = ConfigDid("edit_file", <<>>, NoneTree, NoneTree, "", config)
    /\ UNCHANGED <<config, main, plugins, plugin_modules, inst, source, enabled, bot,
                   router, call_vars, timer_vars, news_vars>>

ReaderNext ==
    \/ GetBegin
    \/ GetStep
    \/ GetReturn
    \/ GetTaken
    \/ ReloadDuringGet
    \/ ReplaceFile

ReaderSpec == ReaderInit /\ [][ReaderNext]_vars
-----------------------------------------------------------------------------
(* main() of main.py: the file check, WeChatBot(config_path), the signal    *)
(* handlers, validate(), and bot.start(), which stays in the message loop.  *)
(* The steps are separate because SIGINT and SIGTERM may arrive in between. *)

\* The value at the key is a str (a scalar), as Path(...) and logger.add
\* need it: not a dict, not a list, not None, not missing.
IsStr(t, key) == get(t, key, NoneTree).ret[<<>>] \notin {"map", "list", "none"}

\* WeChatBot.__init__ after the managers are made: _create_directories
\* raises TypeError in Path(None), _setup_logging raises TypeError or
\* KeyError when "logging" is missing or lacks file, level or format.
bot_init_raises(t) ==
    \/ ~IsStr(t, <<"file_processing", ".", "upload_dir">>)
    \/ ~IsStr(t, <<"file_processing", ".", "output_dir">>)
    \/ ~IsStr(t, <<"logging", ".", "file">>)
    \/ ~IsStr(t, <<"logging", ".", "level">>)
    \/ ~IsStr(t, <<"logging", ".", "format">>)

\* main() has got to `pc`.
MainAt(m, pc) == [m EXCEPT !.pc = pc]

\* main() has returned ret (the exit code), for the reason why.
MainReturned(m, ret, why) == [m EXCEPT !.pc = "returned", !.ret = ret, !.why = why]

\* The validation step written to log the failure and carry on.
main_validate_log_only(m, t) ==
    [MainAt(m, "validated") EXCEPT !.valid = IF validate(t).ret THEN "True" ELSE "False"]

\* if not bot.config.validate(): logger.error(...); return 1
main_validate(m, t) ==
    IF validate(t).ret
    THEN [MainAt(m, "validated") EXCEPT !.valid = "True"]
    ELSE [MainReturned(m, "1", "validation_failed") EXCEPT !.valid = "False"]

\* main() is entered, with or without --debug: nothing is constructed yet.
MainInit ==
    /\ file \in Files
    /\ config = NoneTree
    /\ \E debug \in BOOLEAN : main = [NoMain EXCEPT !.pc = "begin", !.debug = debug]
    /\ bot = [is_running |-> FALSE, phase |-> "none"]
    /\ last = Did("init", "", TRUE, FALSE, <<>>, {})
    /\ plugins = <<>>
    /\ plugin_modules = <<>>
    /\ inst = [id \in InstanceIds |-> NoInstance]
    /\ source = AllLoadable
    /\ enabled = BothEnabled
    /\ router = NoDispatch
    /\ NoCalls
    /\ NoTimers
    /\ NoNews

\* lines 75-77: a missing config file is logged as a warning.
MainCheckFile ==
    /\ main.pc = "begin"
    /\ main' = [MainAt(main, "checked") EXCEPT !.warned = (file.kind = "missing")]
    /\ last' = Did("main_check_file", "", TRUE, FALSE, <<>>, {})
    /\ UNCHANGED <<config, file, bot, plugins, plugin_modules, inst, source, enabled,
                   router, call_vars, timer_vars, news_vars>>

\* lines 80-83: bot = WeChatBot(config_path); setup_signal_handlers(bot).  An
\* exception of the constructor is caught by main(), which returns 1.
MainConstruct ==
    /\ main.pc = "checked"
    /\ config' = load_config(file)
    /\ IF bot_init_raises(load_config(file))
       THEN /\ main' = MainReturned(main, "1", "construct_raised")
            /\ bot' = bot
       ELSE /\ main' = MainAt(main, "constructed")
            /\ bot' = [is_running |-> FALSE, phase |-> "constructed"]
    /\ last' = Did("main_construct", "", ~bot_init_raises(load_config(file)), FALSE,
                   <<>>, {})
    /\ UNCHANGED <<file, plugins, plugin_modules, inst, source, enabled, router,
                   call_vars, timer_vars, news_vars>>

\* lines 86-88
MainValidate ==
    /\ main.pc = "constructed"
    /\ main' = main_validate(main, config)
    /\ last' = Did("main_validate", "", validate(config).ret, FALSE, <<>>, {})
    /\ UNCHANGED <<config, file, bot, plugins, plugin_modules, inst, source, enabled,
                   router, call_vars, timer_vars, news_vars>>

\* lines 91-109: bot.start() registers the handlers, starts the plugins and
\* logs in; a failed login is re-raised and main() returns 1, otherwise
\* start() stays in itchat.run().
MainStart ==
    /\ main.pc = "validated"
    /\ \E o \in OutcomeMaps, login_ok \in BOOLEAN :
          LET r == start_plugins(W, o)
          IN  /\ inst' = r.inst
              /\ last' = Did("bot_start", "", login_ok, FALSE, r.called, r.failed)
              /\ main' =
                    [(IF login_ok THEN MainAt(main, "running")
                      ELSE MainReturned(main, "1", "start_raised")) EXCEPT
                        !.start_called = TRUE, !.handlers = TRUE,
                        !.login = IF login_ok THEN "ok" ELSE "failed"]
              /\ bot' = IF login_ok THEN [is_running |-> TRUE, phase |-> "running"]
                        ELSE [is_running |-> FALSE, phase |-> "exited"]
    /\ UNCHANGED <<config, file, plugins, plugin_modules, source, enabled, router,
                   call_vars, timer_vars, news_vars>>

\* itchat.run() returns (the account was logged out): start() and main()
\* return and the exit code is 0.
MainLoopEnds ==
    /\ main.pc = "running"
    /\ main' = MainReturned(main, "0", "loop_ended")
    /\ bot' = [bot EXCEPT !.phase = "exited"]
    /\ last' = Did("main_loop_ends", "", TRUE, FALSE, <<>>, {})
    /\ UNCHANGED <<config, file, plugins, plugin_modules, inst, source, enabled, router,
                   call_vars, timer_vars, news_vars>>

\* Ctrl-C before the signal handlers are installed: KeyboardInterrupt,
\* main() returns 0.
MainInterrupt ==
    /\ main.pc \in {"begin", "checked"}
    /\ main' = MainReturned(main, "0", "interrupt")
    /\ last' = Did("main_interrupt", "", TRUE, FALSE, <<>>, {})
    /\ UNCHANGED <<config, file, bot, plugins, plugin_modules, inst, source, enabled,
                   router, call_vars, timer_vars, news_vars>>

\* SIGINT or SIGTERM once the handlers are installed: bot.stop(), then
\* sys.exit(0).
MainSignal ==
    /\ main.pc \in {"constructed", "validated", "running"}
    /\ \E o \in OutcomeMaps, logout_ok \in BOOLEAN :
          LET r == stop_plugins(W, o)
          IN  /\ inst' = r.inst
              /\ last' = Did("bot_stop", "", logout_ok, FALSE, r.called, r.failed)
              /\ bot' = [is_running |-> IF logout_ok THEN FALSE ELSE bot.is_running,
                         phase |-> "exited"]
    /\ main' = MainReturned(main, "0", "signal")
    /\ UNCHANGED <<config, file, plugins, plugin_modules, source, enabled, router,
                   call_vars, timer_vars, news_vars>>

MainNext ==
    \/ MainCheckFile
    \/ MainConstruct
    \/ MainValidate
    \/ MainStart
    \/ MainLoopEnds
    \/ MainInterrupt
    \/ MainSignal

MainSpec == MainInit /\ [][MainNext]_vars
-----------------------------------------------------------------------------
(* The plugin objects of a loaded registry, with enable(), disable(),       *)
(* start() and stop() called on them directly.                              *)

\* What a call on one plugin object leaves in `last`: whether it returned
\* normally, whether it called stop(), and the object as it was before.
PluginDid(op, id, ok, stop_called, before) ==
    [op |-> op, name |-> before.name, ok |-> ok, sub_ok |-> stop_called,
     called |-> <<id>>, failed |-> {}, before |-> before]

\* Both plugins are loaded, stopped or running.
PluginInit ==
    /\ \E w \in {LoadedRegistry, StartedRegistry} :
          /\ plugins = w.plugins
          /\ plugin_modules = w.plugin_modules
          /\ inst = w.inst
    /\ source = AllLoadable
    /\ enabled = BothEnabled
    /\ bot = [is_running |-> FALSE, phase |-> "constructed"]
    /\ last = Did("init", "", TRUE, FALSE, <<>>, {})
    /\ router = NoDispatch
    /\ NoCalls
    /\ NoTimers
    /\ NoNews
    /\ DefaultStore

\* plugin.enable()
PluginEnable ==
    /\ \E id \in Registered(plugins) :
          /\ inst' = [inst EXCEPT ![id] = plugin_enable(inst[id])]
          /\ last' = PluginDid("enable", id, TRUE, FALSE, inst[id])
    /\ UNCHANGED <<plugins, plugin_modules, source, enabled, bot, router, call_vars,
                   store_vars, timer_vars, news_vars>>

\* plugin.disable()
PluginDisable ==
    /\ \E id \in Registered(plugins), o \in Outcomes :
          LET r == plugin_disable(inst[id], o)
          IN  /\ inst' = [inst EXCEPT ![id] = r.p]
              /\ last' = PluginDid("disable", id, ~r.raised, r.stop_called, inst[id])
    /\ UNCHANGED <<plugins, plugin_modules, source, enabled, bot, router, call_vars,
                   store_vars, timer_vars, news_vars>>

\* plugin.start()
PluginStart ==
    /\ \E id \in Registered(plugins), o \in Outcomes :
          LET r == plugin_start(inst[id], o)
          IN  /\ inst' = [inst EXCEPT ![id] = r.p]
              /\ last' = PluginDid("start", id, ~r.raised, FALSE, inst[id])
    /\ UNCHANGED <<plugins, plugin_modules, source, enabled, bot, router, call_vars,
                   store_vars, timer_vars, news_vars>>

\* plugin.stop()
PluginStop ==
    /\ \E id \in Registered(plugins), o \in Outcomes :
          LET r == plugin_stop(inst[id], o)
          IN  /\ inst' = [inst EXCEPT ![id] = r.p]
              /\ last' = PluginDid("stop", id, ~r.raised, TRUE, inst[id])
    /\ UNCHANGED <<plugins, plugin_modules, source, enabled, bot, router, call_vars,
                   store_vars, timer_vars, news_vars>>

PluginNext ==
    \/ PluginEnable
    \/ PluginDisable
    \/ PluginStart
    \/ PluginStop
    \/ \E id \in InstanceIds : WorkerExit(id)

PluginSpec == PluginInit /\ [][PluginNext]_vars

-----------------------------------------------------------------------------
(* The shipped plugins used on their own, as test_bot.py uses them: an      *)
(* object is constructed from its class and start() and stop() are called   *)
(* on it any number of times, while the worker of a threaded plugin runs    *)
(* and ends on its own thread.                                              *)

\* No object exists yet.
LifecycleInit ==
    /\ plugins = <<>>
    /\ plugin_modules = <<>>
    /\ inst = [id \in InstanceIds |-> NoInstance]
    /\ source = AllLoadable
    /\ enabled = <<>>
    /\ bot = [is_running |-> FALSE, phase |-> "constructed"]
    /\ last = Did("init", "", TRUE, FALSE, <<>>, {})
    /\ router = NoDispatch
    /\ NoCalls
    /\ NoTimers
    /\ NoNews
    /\ DefaultStore

\* plugin = FileConverterPlugin(config), SchedulerPlugin(config), ...
Construct(name) ==
    /\ NewId(inst) <= MaxInstances
    /\ inst' = [inst EXCEPT ![NewId(inst)] = NewInstance(name)]
    /\ last' = PluginDid("construct", NewId(inst), TRUE, FALSE, NewInstance(name))
    /\ UNCHANGED <<plugins, plugin_modules, source, enabled, bot, router, call_vars,
                   store_vars, timer_vars, news_vars>>

\* plugin.start() on an object held by the caller
ObjectStart(id, o) ==
    /\ id \in Allocated(inst)
    /\ LET r == plugin_start(inst[id], o)
       IN  /\ inst' = [inst EXCEPT ![id] = r.p]
           /\ last' = PluginDid("start", id, ~r.raised, FALSE, inst[id])
    /\ UNCHANGED <<plugins, plugin_modules, source, enabled, bot, router, call_vars,
                   store_vars, timer_vars, news_vars>>

\* plugin.stop() on an object held by the caller
ObjectStop(id, o) ==
    /\ id \in Allocated(inst)
    /\ LET r == plugin_stop(inst[id], o)
       IN  /\ inst' = [inst EXCEPT ![id] = r.p]
           /\ last' = PluginDid("stop", id, ~r.raised, TRUE, inst[id])
    /\ UNCHANGED <<plugins, plugin_modules, source, enabled, bot, router, call_vars,
                   store_vars, timer_vars, news_vars>>

\* _run_scheduler / _run_news_scheduler: the worker reads its loop flag
\* False and returns.
ObjectWorkerExit(id) ==
    /\ inst[id].thread = "alive"
    /\ ~inst[id].loop_flag
    /\ inst' = [inst EXCEPT ![id].thread = "dead"]
    /\ last' = PluginDid("worker_exit", id, TRUE, FALSE, inst[id])
    /\ UNCHANGED <<plugins, plugin_modules, source, enabled, bot, router, call_vars,
                   store_vars, timer_vars, news_vars>>

LifecycleNext ==
    \/ \E name \in ShippedPlugins : Construct(name)
    \/ \E id \in InstanceIds, o \in Outcomes : ObjectStart(id, o)
    \/ \E id \in InstanceIds, o \in Outcomes : ObjectStop(id, o)
    \/ \E id \in InstanceIds : ObjectWorkerExit(id)

LifecycleSpec == LifecycleInit /\ [][LifecycleNext]_vars

-----------------------------------------------------------------------------
(* The scheduler plugin's commands.  The bot runs with the scheduler        *)
(* plugin loaded and started; users send '/scheduler add ...',              *)
(* '/scheduler list' and '/scheduler delete ...', which reach               *)
(* execute_command of the registered object with the caller's id.           *)

\* 'add <type> <schedule time> <message>' as a text.
AddCommand(task_type, schedule_time, message) ==
    <<"add", " ">> \o task_type \o <<" ">> \o schedule_time \o <<" ">> \o message

\* The three forms of the help text, the daily one also with a message of
\* two words: the type, the schedule time and the message of each.
DocumentedForms ==
    {[task_type |-> <<"daily">>, schedule_time |-> <<"09:00">>, message |-> <<"msg">>],
     [task_type |-> <<"daily">>, schedule_time |-> <<"18:00">>,
      message |-> <<"msg", " ", "msg">>],
     [task_type |-> <<"weekly">>, schedule_time |-> <<"1", " ", "18:00">>,
      message |-> <<"msg">>],
     [task_type |-> <<"once">>, schedule_time |-> <<"2024-01-01", " ", "18:00">>,
      message |-> <<"msg">>]}

\* The add commands users send: the documented forms, a command without a
\* message, a time of day that does not exist, a type that does not exist,
\* and a once task whose date and time are joined by a newline.
AddCommands ==
    {AddCommand(f.task_type, f.schedule_time, f.message) : f \in DocumentedForms}
        \cup {<<"add", " ", "daily", " ", "09:00">>,
              AddCommand(<<"daily">>, <<"25:00">>, <<"msg">>),
              AddCommand(<<"hourly">>, <<"09:00">>, <<"msg">>),
              AddCommand(<<"once">>, <<"2024-01-01", "\n", "18:00">>, <<"msg">>)}

\* The delete commands users send.
DeleteCommands ==
    {<<"delete", " ", "1">>, <<"delete", " ", "2">>, <<"delete">>,
     <<"delete", " ", "msg">>, <<"delete", " ", " ", "1">>}

\* The row a 'delete <id>' command names, 0 when the command names none.
Target(command, tasks) ==
    IF Len(command) = 3 /\ command[2] = " " /\ command[3] \in IntWords
       /\ IntOf(command[3]) \in 1..Len(tasks)
    THEN IntOf(command[3]) ELSE 0

\* The registry after load_plugin('scheduler') and start_plugins().
SchedulerRunning ==
    LET w == load_plugin(EmptyRegistry, AllLoadable, "scheduler", "missing").w
    IN  [w EXCEPT !.inst = start_plugins(w, OkOutcomes).inst]

\* A once task and a daily task of user u1 that an earlier run left in the
\* table.
StoredOnce ==
    [id |-> 1, user_id |-> "u1", task_type |-> <<"once">>,
     schedule_time |-> <<"2024-01-01", " ", "18:00">>, message |-> <<"msg">>,
     is_active |-> 1]

StoredDaily ==
    [id |-> 1, user_id |-> "u1", task_type |-> <<"daily">>,
     schedule_time |-> <<"09:00">>, message |-> <<"msg">>, is_active |-> 1]

\* What a scheduler command leaves in `last`: the caller, the command, the
\* reply, the ids a list showed, and the table as it was before.
TaskDid(op, user_id, command, reply, shown, before) ==
    [op |-> op, name |-> "scheduler", ok |-> TRUE, sub_ok |-> FALSE, called |-> <<>>,
     failed |-> {}, user_id |-> user_id, command |-> command, reply |-> reply,
     shown |-> shown, before |-> before]

\* The bot is in its message loop with the scheduler plugin started; the
\* table holds the rows in `stored`, which SchedulerPlugin.__init__ has
\* registered with the schedule.
SchedulerInit(stored) ==
    /\ plugins = SchedulerRunning.plugins
    /\ plugin_modules = SchedulerRunning.plugin_modules
    /\ inst = SchedulerRunning.inst
    /\ source = AllLoadable
    /\ enabled = <<"scheduler">>
    /\ bot = [is_running |-> TRUE, phase |-> "running"]
    /\ last = Did("init", "", TRUE, FALSE, <<>>, {})
    /\ router = NoDispatch
    /\ NoCalls
    /\ DefaultStore
    /\ NoNews
    /\ scheduled_tasks \in stored
    /\ jobs = load_existing_tasks(scheduled_tasks, <<>>, 0, 1)
    /\ outbox = <<>>
    /\ clock = 0
    /\ firing = NoFiring

TaskInit == SchedulerInit({<<>>})

\* execute_command of the registered SchedulerPlugin with a command that
\* starts with 'add': _add_scheduled_task.
AddTask(user_id, command) ==
    /\ DictHas(plugins, "scheduler")
    /\ Len(scheduled_tasks) < MaxTasks
    /\ startswith(command, "add")
    /\ LET r == add_scheduled_task(scheduled_tasks, jobs, clock,
                                   DictGet(plugins, "scheduler"), command, user_id)
       IN  /\ scheduled_tasks' = r.tasks
           /\ jobs' = r.jobs
           /\ last' = TaskDid("add", user_id, command, r.reply, {}, scheduled_tasks)
    /\ UNCHANGED <<plugins, plugin_modules, inst, source, enabled, bot, router, call_vars,
                   store_vars, outbox, clock, firing, news_vars>>

\* ... with a command that starts with 'list': _list_scheduled_tasks.
ListTasks(user_id) ==
    /\ DictHas(plugins, "scheduler")
    /\ LET shown == list_scheduled_tasks(scheduled_tasks, user_id)
       IN  last' = TaskDid("list", user_id, <<"list">>,
                           IF shown = {} THEN "no_tasks" ELSE "tasks", shown,
                           scheduled_tasks)
    /\ UNCHANGED <<plugins, plugin_modules, inst, source, enabled, bot, router, call_vars,
                   store_vars, timer_vars, news_vars>>

\* ... with a command that starts with 'delete': _delete_scheduled_task.
DeleteTask(user_id, command) ==
    /\ DictHas(plugins, "scheduler")
    /\ startswith(command, "delete")
    /\ LET r == delete_scheduled_task(scheduled_tasks, command, user_id)
       IN  /\ scheduled_tasks' = r.tasks
           /\ last' = TaskDid("delete", user_id, command, r.reply, {}, scheduled_tasks)
    /\ UNCHANGED <<plugins, plugin_modules, inst, source, enabled, bot, router, call_vars,
                   store_vars, jobs, outbox, clock, firing, news_vars>>

TaskNext ==
    \/ \E u \in UserIds, c \in AddCommands : AddTask(u, c)
    \/ \E u \in UserIds : ListTasks(u)
    \/ \E u \in UserIds, c \in DeleteCommands : DeleteTask(u, c)

TaskSpec == TaskInit /\ [][TaskNext]_vars

-----------------------------------------------------------------------------
(* The scheduler plugin's timers.  Every SchedulerPlugin object registers   *)
(* its callbacks in the one schedule of the process when it is constructed  *)
(* and when a task is added; the worker thread of any started object calls  *)
(* schedule.run_pending(), which runs the callbacks that are due, each one  *)
(* reading the row of its task before it sends.  The commands run on the    *)
(* dispatch thread, so a callback is taken in two steps (the SELECT, then   *)
(* the send) and a command may run in between.                              *)

\* The delete commands that name a task by its number.
NumberedDeletes == {d \in DeleteCommands : Len(d) = 3 /\ d[3] \in IntWords}

\* The table is empty or holds one task of an earlier run.
TimerInit == SchedulerInit({<<>>, <<StoredOnce>>, <<StoredDaily>>})

\* The object that load_plugin registered under 'scheduler' in w and that
\* did not exist in the object store i, None when there is none.
Constructed(w, i) ==
    IF DictHas(w.plugins, "scheduler")
       /\ DictGet(w.plugins, "scheduler") \notin Allocated(i)
    THEN DictGet(w.plugins, "scheduler") ELSE None

\* What SchedulerPlugin.__init__ of the object that w registered adds to
\* the schedule.
RegisterTimers(w) ==
    jobs' = IF Constructed(w, inst) = None THEN jobs
            ELSE load_existing_tasks(scheduled_tasks, jobs, clock, Constructed(w, inst))

\* PluginManager.reload_plugin('scheduler')
ReloadScheduler(o) ==
    /\ Alive
    /\ firing.pc = "idle"
    /\ NewId(inst) <= MaxInstances
    /\ LET r == reload_plugin(W, source, "scheduler", o, "missing")
       IN  /\ SetRegistry(r.w)
           /\ RegisterTimers(r.w)
           /\ last' = Did("reload_plugin", "scheduler", r.ret, r.sub_ok, <<>>, {})
    /\ UNCHANGED <<call_vars, store_vars, router, source, enabled, bot, scheduled_tasks,
                   outbox, clock, firing, news_vars>>

\* PluginManager.reload_plugins(): the 'reload' command.
ReloadAllPlugins(o) ==
    /\ Alive
    /\ firing.pc = "idle"
    /\ Cardinality(Allocated(inst)) + Len(enabled) <= MaxInstances
    /\ LET w == reload_plugins(W, source, enabled, o, "missing")
       IN  /\ SetRegistry(w)
           /\ RegisterTimers(w)
           /\ last' = Did("reload_plugins", "", TRUE, FALSE, <<>>, {})
    /\ UNCHANGED <<call_vars, store_vars, router, source, enabled, bot, scheduled_tasks,
                   outbox, clock, firing, news_vars>>

\* Some started SchedulerPlugin object has a worker in its loop.
WorkerRuns ==
    \E id \in Allocated(inst) :
        /\ inst[id].name = "scheduler"
        /\ inst[id].thread = "alive"
        /\ inst[id].loop_flag

\* One time slot passes.  A worker polls the schedule every second, so the
\* jobs that are due run before the slot is over.
Tick ==
    /\ clock < MaxSlot
    /\ firing.pc = "idle"
    /\ ~(WorkerRuns /\ FirstDue(jobs, clock) # 0)
    /\ clock' = clock + 1
    /\ last' = Did("tick", "", TRUE, FALSE, <<>>, {})
    /\ UNCHANGED <<plugins, plugin_modules, inst, source, enabled, bot, router, call_vars,
                   store_vars, scheduled_tasks, jobs, outbox, firing, news_vars>>

\* _run_scheduler of a started object: run_pending() calls the first job
\* that is due, and _send_scheduled_message reads is_active of its task.
FireBegin ==
    /\ firing.pc = "idle"
    /\ WorkerRuns
    /\ FirstDue(jobs, clock) # 0
    /\ LET j == FirstDue(jobs, clock)
       IN  firing' = [pc |-> "checked", job |-> j,
                      result |-> read_is_active(scheduled_tasks, jobs[j].task_id),
                      began_active |->
                          /\ jobs[j].task_id \in 1..Len(scheduled_tasks)
                          /\ scheduled_tasks[jobs[j].task_id].is_active = 1]
    /\ last' = Did("fire_begin", "", TRUE, FALSE, <<>>, {})
    /\ UNCHANGED <<plugins, plugin_modules, inst, source, enabled, bot, router, call_vars,
                   store_vars, scheduled_tasks, jobs, outbox, clock, news_vars>>

\* _send_scheduled_message sends or skips, and the schedule library sets the
\* job's next run.
FireEnd ==
    /\ firing.pc = "checked"
    /\ LET j == jobs[firing.job]
       IN  /\ outbox' = IF should_send(firing.result)
                        THEN Append(outbox, [to |-> j.user_id, message |-> j.message,
                                             task_id |-> j.task_id, slot |-> clock])
                        ELSE outbox
           /\ jobs' = [jobs EXCEPT ![firing.job].next_run = NextRun(clock, j.weekday, j.at)]
           /\ last' = TaskDid("fire", j.user_id, <<>>,
                              IF should_send(firing.result) THEN "sent" ELSE "skipped",
                              {j.task_id}, scheduled_tasks)
    /\ firing' = NoFiring
    /\ UNCHANGED <<plugins, plugin_modules, inst, source, enabled, bot, router, call_vars,
                   store_vars, scheduled_tasks, clock, news_vars>>

TimerNext ==
    \/ \E u \in UserIds : AddTask(u, AddCommand(<<"daily">>, <<"09:00">>, <<"msg">>))
    \/ \E u \in UserIds, c \in NumberedDeletes : DeleteTask(u, c)
    \/ Tick
    \/ FireBegin
    \/ FireEnd

TimerSpec == TimerInit /\ [][TimerNext]_vars

\* stop() and start() calls in which only the scheduler's join may time out.
SchedulerOutcomes == {o \in OutcomeMaps : o["extra"] = "ok"}

\* The same timers while the scheduler plugin is reloaded and started
\* again, with the tasks that the table holds.
ReloadTimerNext ==
    \/ \E o \in SchedulerOutcomes : ReloadScheduler(o)
    \/ \E o \in SchedulerOutcomes : ReloadAllPlugins(o)
    \/ StartPlugins(OkOutcomes)
    \/ \E id \in InstanceIds : WorkerExit(id)
    \/ Tick
    \/ FireBegin
    \/ FireEnd

ReloadTimerSpec == TimerInit /\ [][ReloadTimerNext]_vars

-----------------------------------------------------------------------------
(* The news plugin.  _push_daily_news runs on the worker thread and walks   *)
(* self.subscribers with a for loop; 'subscribe' and 'unsubscribe' commands *)
(* run on the dispatch thread and add to and discard from the same set.     *)
(* The loop is taken one next() of the set iterator at a time.              *)

\* A NewsPusherPlugin object, constructed and started.
NewsRunning ==
    [id \in InstanceIds |->
        IF id = 1 THEN plugin_start(NewInstance("news_pusher"), "ok").p ELSE NoInstance]

\* The plugin runs; _load_subscribers has read the subscribers of earlier
\* runs from the table news_subscribers.
NewsInit ==
    /\ plugins = <<>>
    /\ plugin_modules = <<>>
    /\ inst = NewsRunning
    /\ source = AllLoadable
    /\ enabled = <<>>
    /\ bot = [is_running |-> TRUE, phase |-> "running"]
    /\ last = Did("init", "", TRUE, FALSE, <<>>, {})
    /\ router = NoDispatch
    /\ NoCalls
    /\ DefaultStore
    /\ NoTimers
    /\ subscribers \in SUBSET UserIds
    /\ push = NoPush

\* What a subscribe or unsubscribe call changes in the record of a push in
\* progress: who has been subscribed ever since the push began.
Stayed(after) ==
    IF push.pc = "iterating" THEN [push EXCEPT !.stayed = @ \cap after] ELSE push

\* execute_command('subscribe', user_id=...): _subscribe_user
Subscribe(user_id) ==
    /\ subscribers' = subscribers \cup {user_id}
    /\ push' = Stayed(subscribers')
    /\ last' = TaskDid("subscribe", user_id, <<>>,
                       IF user_id \in subscribers THEN "already" ELSE "subscribed", {},
                       <<>>)
    /\ UNCHANGED <<plugins, plugin_modules, inst, source, enabled, bot, router, call_vars,
                   store_vars, timer_vars>>

\* execute_command('unsubscribe', user_id=...): _unsubscribe_user
Unsubscribe(user_id) ==
    /\ subscribers' = subscribers \ {user_id}
    /\ push' = Stayed(subscribers')
    /\ last' = TaskDid("unsubscribe", user_id, <<>>,
                       IF user_id \in subscribers THEN "unsubscribed" ELSE "not_subscribed",
                       {}, <<>>)
    /\ UNCHANGED <<plugins, plugin_modules, inst, source, enabled, bot, router, call_vars,
                   store_vars, timer_vars>>

\* _push_daily_news up to the for statement: nothing is pushed when nobody
\* is subscribed or no news was fetched; otherwise iter(self.subscribers)
\* records the size of the set.
PushBegin(news_found) ==
    /\ push.pc # "iterating"
    /\ inst[1].thread = "alive"
    /\ inst[1].loop_flag
    /\ push' = IF subscribers = {} \/ ~news_found
               THEN [NoPush EXCEPT !.pc = "skipped"]
               ELSE [pc |-> "iterating", si_used |-> Cardinality(subscribers),
                     passed |-> {}, delivered |-> {}, stayed |-> subscribers]
    /\ last' = Did("push_begin", "", TRUE, FALSE, <<>>, {})
    /\ UNCHANGED <<plugins, plugin_modules, inst, source, enabled, bot, router, call_vars,
                   store_vars, timer_vars, subscribers>>

\* next() of the set iterator: RuntimeError ('Set changed size during
\* iteration') when the set does not have the size it had at iter(); else
\* an element the iterator has not passed, in table order, which the model
\* leaves open; an element added since iter() may lie behind the iterator
\* and is then not reached.
setiter_next(s, it) ==
    IF Cardinality(s) # it.si_used THEN {[kind |-> "RuntimeError", key |-> ""]}
    ELSE IF s \ it.passed = {} THEN {[kind |-> "StopIteration", key |-> ""]}
    ELSE {[kind |-> "key", key |-> u] : u \in s \ it.passed}
            \cup (IF it.stayed \subseteq it.passed
                  THEN {[kind |-> "StopIteration", key |-> ""]} ELSE {})

\* One turn of `for user_id in self.subscribers`: send to the next user; the
\* RuntimeError of the iterator is caught by the try around the whole
\* method, which logs it and returns.
PushNext ==
    /\ push.pc = "iterating"
    /\ \E n \in setiter_next(subscribers, push) :
          push' = CASE n.kind = "RuntimeError" -> [push EXCEPT !.pc = "aborted"]
                    [] n.kind = "StopIteration" -> [push EXCEPT !.pc = "done"]
                    [] OTHER -> [push EXCEPT !.passed = @ \cup {n.key},
                                             !.delivered = @ \cup {n.key}]
    /\ last' = Did("push_next", "", TRUE, FALSE, <<>>, {})
    /\ UNCHANGED <<plugins, plugin_modules, inst, source, enabled, bot, router, call_vars,
                   store_vars, timer_vars, subscribers>>

NewsNext ==
    \/ \E u \in UserIds : Subscribe(u)
    \/ \E u \in UserIds : Unsubscribe(u)
    \/ \E news_found \in BOOLEAN : PushBegin(news_found)
    \/ PushNext

NewsSpec == NewsInit /\ [][NewsNext]_vars

-----------------------------------------------------------------------------
(* Properties.                                                              *)

Count(seq, x) == Cardinality({i \in 1..Len(seq) : seq[i] = x})

Loadable(n) == source[n] = "ok"

ReloadAllOps == {"reload_plugins", "handle_reload"}

\* C1: an instance leaves the registry (removed, or replaced under its
\* name) only while it is stopped: no object outside the registry has
\* is_running true.
C1_LeavesRegistryOnlyStopped ==
    \A id \in Allocated(inst) : id \notin Registered(plugins) => ~inst[id].is_running

\* C2: after a successful load(X) status() lists X exactly once, after a
\* successful unload(X) X is absent, after reload(X) X is listed at most
\* once (once when it succeeded); no name is ever listed twice.
C2_StatusListsNameOnce ==
    LET names == get_status(W, enabled).loaded_plugins
    IN  /\ \A n \in PluginNames : Count(names, n) <= 1
        /\ (last.op = "load_plugin" /\ last.ok) => Count(names, last.name) = 1
        /\ (last.op = "unload_plugin" /\ last.ok) => Count(names, last.name) = 0
        /\ (last.op = "reload_plugin" /\ last.ok) => Count(names, last.name) = 1
        /\ get_status(W, enabled).total_plugins = Len(names)

\* C2 witness: a plugin that was loaded has been unloaded and loaded again
\* by reload_plugin.
C2_Witness == last.op = "reload_plugin" /\ last.ok /\ last.sub_ok

\* C3: a load_plugin call that fails leaves plugins, plugin_modules and
\* every plugin object exactly as they were.
C3_FailedLoadChangesNothing ==
    [][(last'.op = "load_plugin" /\ ~last'.ok)
          => (plugins' = plugins /\ plugin_modules' = plugin_modules /\ inst' = inst)]_vars

\* C3 witness: load_plugin has failed on a registry that holds a plugin.
C3_Witness == last.op = "load_plugin" /\ ~last.ok /\ Len(plugins) > 0

\* C4: unload_plugin of a present plugin removes the entry, also when the
\* plugin's stop() raised.
C4_UnloadRemovesDespiteStopFailure ==
    (last.op = "unload_plugin" /\ last.failed # {}) => ~DictHas(plugins, last.name)

\* C5: when reload_plugin's unload step succeeded and its load step fails,
\* the plugin is absent afterwards and reload_plugin returns False.
C5_FailedReloadLeavesAbsent ==
    (last.op = "reload_plugin" /\ last.sub_ok /\ ~Loadable(last.name))
        => (~DictHas(plugins, last.name) /\ ~last.ok)

\* C5 witness: reload_plugin has unloaded a plugin whose source no longer
\* loads.
C5_Witness == last.op = "reload_plugin" /\ last.sub_ok /\ ~Loadable(last.name)

\* C6: after reload_plugins, when every enabled name has a loadable source,
\* the loaded names are exactly plugins.enabled, in that order.
C6_ReloadAllGivesEnabledList ==
    (last.op \in ReloadAllOps /\ \A i \in 1..Len(enabled) : Loadable(enabled[i]))
        => get_status(W, enabled).loaded_plugins = enabled

\* C7: a plugin that was running before reload_plugins and is still enabled
\* (with a loadable source) is running once reload_plugins has returned.
C7_RunningAgainAfterReloadAll ==
    [][last'.op \in ReloadAllOps
          => \A n \in RunningNames(W) :
                (n \in Range(enabled) /\ Loadable(n)) => n \in RunningNames(W')]_vars

\* C8: once WeChatBot.start() has reached the message loop, every enabled
\* name with a loadable source is in the registry and has been started.
C8_HostStartPopulatesRegistry ==
    (last.op = "bot_start" /\ bot.phase = "running")
        => \A i \in 1..Len(enabled) :
              Loadable(enabled[i])
                 => /\ DictHas(plugins, enabled[i])
                    /\ inst[DictGet(plugins, enabled[i])].started_ok

\* C9: start_plugins and stop_plugins call start() (stop()) on every plugin
\* of the registry, in order, whichever of the calls raise, and do not
\* raise themselves.
C9_StartStopAllReachEveryPlugin ==
    last.op \in {"start_plugins", "stop_plugins"}
        => (last.called = DictValues(plugins) /\ last.ok)

\* C9 witness: start_plugins had a start() raise and went on to the plugins
\* after it.
C9_Witness ==
    /\ last.op = "start_plugins"
    /\ \E i \in 1..Len(last.called) : i < Len(last.called) /\ last.called[i] \in last.failed

\* C10: a plugin whose is_running is true has had a start() call return
\* normally since its last stop().
C10_RunningImpliesStarted ==
    \A id \in Allocated(inst) : inst[id].is_running => inst[id].started_ok

StartOps == {"start_plugins", "bot_start"}

StopOps == {"stop_plugins", "bot_stop"}

\* C11: stop() is a blocking barrier: once stop_plugins (or the host's stop)
\* has returned, no plugin it stopped has a live worker thread.
C11_StopIsBarrier ==
    last.op \in StopOps
        => \A id \in Range(last.called) : inst[id].thread # "alive"

\* C12: every start() call that start_plugins or the host's start makes is
\* made on a plugin whose is_running is false.
C12_StartOnlyWhenStopped ==
    [][last'.op \in StartOps
          => \A id \in Range(last'.called) : ~inst[id].is_running]_vars

-----------------------------------------------------------------------------
(* Properties of the router.                                                *)

RouterEntries == {"handle_text_message", "execute_command"}

\* An entry point of the handler has returned.
Replied == router.phase = "replied" /\ router.entry \in RouterEntries

\* The replies that stand for 'nothing to say to this': the default
\* responses and execute_command's 'unknown command'.
FallbackReplies == DefaultResponses \cup {"router_unknown_command"}

\* The call has handed a command to a plugin whose execute_command raised.
PluginRaised(r) == r.calls # <<>> /\ r.calls[1].raised

\* C13: when the addressed plugin's execute_command raises, the router
\* does not raise and its reply is a failure message, not one of the
\* ordinary fallback responses.
C13_PluginFaultGivesErrorReply ==
    (Replied /\ PluginRaised(router))
        => (~router.raised /\ Truthy(router.reply) /\ router.reply \notin FallbackReplies)

\* C14: a dispatch in which the plugin's execute_command raises gives a
\* non-empty reply and leaves plugins, plugin_modules and every plugin
\* object as they were.
C14_PluginFaultChangesNothingElse ==
    [][(router'.phase = "replied" /\ router'.entry \in RouterEntries /\ PluginRaised(router'))
          => /\ Truthy(router'.reply)
             /\ ~router'.raised
             /\ plugins' = plugins
             /\ plugin_modules' = plugin_modules
             /\ inst' = inst]_vars

\* C14 witness: a plugin's execute_command has raised while another plugin
\* of the registry is running.
C14_Witness ==
    /\ Replied
    /\ PluginRaised(router)
    /\ \E n \in RunningNames(W) : <<n>> # router.plugin_name

\* C15: a dispatch to a name that is not in the registry, through the
\* router or through execute_plugin_command, does not raise, answers that
\* the plugin is not there, and leaves the registry as it was.
C15_AbsentPluginAnswered ==
    [][(router'.phase = "replied" /\ router'.parsed /\ router'.wired /\ ~router'.found)
          => /\ ~router'.raised
             /\ router'.reply = "plugin_absent"
             /\ plugins' = plugins
             /\ plugin_modules' = plugin_modules
             /\ inst' = inst]_vars

\* C16: handle_text_message and execute_command return a non-empty text
\* for every text and do not raise.
C16_EveryTextAnswered ==
    Replied => (~router.raised /\ Truthy(router.reply))

\* C16 witness: a plugin command has been answered by a handler that has no
\* plugin_manager.
C16_Witness == Replied /\ router.parsed /\ ~router.wired

\* The position of the first whitespace character of s, Len(s) + 1 when it
\* has none.
FirstWhite(s) ==
    IF \E i \in 1..Len(s) : s[i] \in WhiteSpace
    THEN CHOOSE i \in 1..Len(s) :
            s[i] \in WhiteSpace /\ \A j \in 1..(i - 1) : s[j] \notin WhiteSpace
    ELSE Len(s) + 1

\* t is s without its leading and trailing whitespace.
Trimmed(s, t) ==
    /\ t = <<>> \/ (Head(t) \notin WhiteSpace /\ t[Len(t)] \notin WhiteSpace)
    /\ \E i \in 1..(Len(s) + 1) :
          /\ i + Len(t) - 1 <= Len(s)
          /\ t = SubSeq(s, i, i + Len(t) - 1)
          /\ \A j \in 1..Len(s) : (j < i \/ j >= i + Len(t)) => s[j] \in WhiteSpace

\* The text an entry point works on: handle_text_message strips the
\* message, execute_command takes the command as given.
WorksOn(entry, text, content) ==
    IF entry = "handle_text_message" THEN Trimmed(text, content) ELSE content = text

\* C17 as stated: for a text that starts with '/', the plugin name is the
\* text after the prefix up to the first whitespace character and the
\* argument string is everything after that character, untrimmed.
C17_NameUpToFirstWhitespace ==
    (Replied /\ startswith(router.text, "/"))
        => LET rest == Tail(router.text)
           IN  /\ router.parsed
               /\ router.plugin_name = SubSeq(rest, 1, FirstWhite(rest) - 1)
               /\ router.command = SubSeq(rest, FirstWhite(rest) + 1, Len(rest))

\* C17 amended: for a text that starts with '/' once handle_text_message
\* has stripped it (execute_command takes it as given), the plugin name is
\* the text after the prefix up to the first space and holds no space, and
\* the argument string is everything after that space, as it is; without a
\* space the argument string is empty.
C17_NameUpToFirstSpace ==
    Replied
        => /\ WorksOn(router.entry, router.text, router.content)
           /\ router.parsed = startswith(router.content, "/")
           /\ router.parsed
                 => LET rest == Tail(router.content)
                    IN  /\ \A i \in 1..Len(router.plugin_name) : router.plugin_name[i] # " "
                        /\ \/ rest = router.plugin_name /\ router.command = <<>>
                           \/ rest = router.plugin_name \o <<" ">> \o router.command

\* C17 witness: a plugin command whose name is followed by a line feed and
\* more text has been parsed.
C17_Witness ==
    /\ Replied
    /\ router.parsed
    /\ \E i \in 1..Len(router.plugin_name) : i > 1 /\ router.plugin_name[i] = "\n"

\* The handler each alias names.
AliasHandler ==
    [w \in {"bangzhu", "help", "zhuangtai", "status", "chajian", "plugins", "chongzai",
            "reload"} |->
        CASE w \in {"bangzhu", "help"} -> "_handle_help"
          [] w \in {"zhuangtai", "status"} -> "_handle_status"
          [] w \in {"chajian", "plugins"} -> "_handle_plugins"
          [] OTHER -> "_handle_reload"]

\* The text t is the alias, in any case, and a system handler answered it
\* without any plugin being called.
AnsweredAsSystemCommand(t) ==
    /\ (router.route = "system") = (\E w \in DOMAIN AliasHandler : lower(t) = <<w>>)
    /\ router.route = "system"
          => /\ router.handler = AliasHandler[lower(t)[1]]
             /\ router.calls = <<>>
             /\ ~router.parsed

\* C18 as stated: on both entry points a text is answered by a system
\* handler exactly when its trimmed form is one of the aliases, in any
\* case; the handler is the alias's, and no plugin is called.
C18_SystemCommandIffTrimmedAlias ==
    Replied => AnsweredAsSystemCommand(strip(router.text))

\* The command without one final line feed.
WithoutFinalLineFeed(s) ==
    IF s # <<>> /\ s[Len(s)] = "\n" THEN SubSeq(s, 1, Len(s) - 1) ELSE s

\* C18 amended: handle_text_message answers with a system handler exactly
\* when the trimmed text is one of the aliases, in any case; execute_command
\* exactly when the command as given, with at most one final line feed
\* dropped, is one; the handler is the alias's, and no plugin is called.
C18_SystemCommandIffMatchedAlias ==
    Replied
        => IF router.entry = "handle_text_message"
           THEN AnsweredAsSystemCommand(strip(router.text))
           ELSE AnsweredAsSystemCommand(WithoutFinalLineFeed(router.text))

\* C18 witness: handle_text_message has answered an alias in upper case
\* with whitespace around it through a system handler.
C18_Witness ==
    /\ Replied
    /\ router.entry = "handle_text_message"
    /\ router.route = "system"
    /\ router.text # router.content
    /\ lower(router.content) # router.content

\* The command went to the registered plugin of that name, once, with the
\* parsed argument string and the caller's id.
ForwardedOnce ==
    /\ Len(router.calls) = 1
    /\ Len(router.plugin_name) = 1
    /\ DictHas(plugins, router.plugin_name[1])
    /\ router.calls[1].id = DictGet(plugins, router.plugin_name[1])
    /\ router.calls[1].user_id = router.user
    /\ router.calls[1].command = router.command
    /\ \/ Tail(router.content) = router.plugin_name /\ router.command = <<>>
       \/ Tail(router.content) = router.plugin_name \o <<" ">> \o router.command

\* C19 as stated: a plugin command for a loaded plugin is forwarded to its
\* execute_command exactly once, with the parsed argument string and the
\* caller's id, and the reply is the string it returned, the empty string
\* included.
C19_ReplyIsPluginResponse ==
    (Replied /\ router.found)
        => /\ ForwardedOnce
           /\ (~router.calls[1].raised /\ router.calls[1].response # NoneValue)
                 => router.reply = router.calls[1].response

\* C19 amended: a plugin command for a loaded plugin is forwarded to its
\* execute_command exactly once, with the parsed argument string and the
\* caller's id; the reply is the string it returned when that is not empty,
\* and a fallback response when it is empty (or None).
C19_ReplyIsNonEmptyPluginResponse ==
    (Replied /\ router.found)
        => /\ ForwardedOnce
           /\ (~router.calls[1].raised /\ Truthy(router.calls[1].response))
                 => router.reply = router.calls[1].response
           /\ (~router.calls[1].raised /\ ~Truthy(router.calls[1].response))
                 => router.reply \in FallbackReplies

\* C19 witness: a loaded plugin was handed an argument string with a space
\* in it and returned the empty string.
C19_Witness ==
    /\ Replied
    /\ router.found
    /\ ~router.calls[1].raised
    /\ router.calls[1].response = ""
    /\ \E i \in 1..Len(router.command) : router.command[i] = " "

\* C20: execute_command of BasePlugin and of each shipped plugin answers a
\* sub-command it does not know with a non-empty text and does not raise.
C20_UnknownSubCommandAnswered ==
    \A i \in 1..Len(router.calls) :
        (/\ router.calls[i].impl \in ShippedImpls \cup {"BasePlugin"}
         /\ ~supports(router.calls[i].impl, router.calls[i].command))
            => (~router.calls[i].raised /\ Truthy(router.calls[i].response))

-----------------------------------------------------------------------------
(* Properties of calls that overlap.                                        *)

\* C21: reloadAll excludes every other registry operation: the stopAll that
\* the shutdown signal handler runs never runs against a registry that a
\* reload_plugins() call has entered and not left.
C21_ReloadAllExcludesStopAll ==
    last.op = "bot_stop" => reloading.pc = "idle"

\* C22: get_status() overlapping a load or an unload returns without
\* raising, and what it returns is consistent: total_plugins is the number
\* of loaded_plugins and plugin_details has exactly one descriptor per
\* loaded name.
C22_StatusSnapshotConsistent ==
    status.pc = "returned"
        => /\ ~status.raised
           /\ status.total_plugins = Len(status.loaded_plugins)
           /\ Len(status.plugin_details) = Len(status.loaded_plugins)
           /\ Range(DictKeys(status.plugin_details)) = Range(status.loaded_plugins)

-----------------------------------------------------------------------------
(* Properties of the ConfigManager.                                         *)

\* The path a key names.
PathOf(key) == split(key, ".")

\* C23: round trip: right after set(p, v), get(p, d) returns v, whatever the
\* tree was and whatever d is.
C23_GetAfterSetReturnsValue ==
    last.op = "set"
        => \A d \in ConfigDefaults : get(config, last.key, d).ret = last.arg

\* Every segment of the path resolves: the path exists in the tree, which
\* makes every node above it a mapping.
Resolves(t, p) == p \in DOMAIN t /\ \A i \in 0..(Len(p) - 1) : t[SubSeq(p, 1, i)] = "map"

\* C24: get(path, default) never raises; it returns the stored value when
\* every segment resolves and the default otherwise (a segment is missing,
\* or a node on the way is a scalar, a list or None).
C24_GetReturnsValueOrDefault ==
    last.op = "get"
        => /\ last.raised = ""
           /\ last.ret = IF Resolves(config, PathOf(last.key))
                         THEN Subtree(config, PathOf(last.key))
                         ELSE last.arg

\* A get with a default of its own met a scalar on the way, another a list,
\* another a tree that is None.
C24_Witness ==
    /\ last.op = "get"
    /\ last.arg = Scalar("d")
    /\ last.ret = Scalar("d")
    /\ \E i \in 0..(Len(PathOf(last.key)) - 1) :
          /\ SubSeq(PathOf(last.key), 1, i) \in DOMAIN config
          /\ config[SubSeq(PathOf(last.key), 1, i)] \notin {"map", "list", "none"}

\* C25: set(path, value) never fails: on every tree it stores the value at
\* the path, creating the mappings that are missing, and leaves every entry
\* outside the path as it was.
C25_SetNeverFails ==
    last.op = "set"
        => /\ last.raised = ""
           /\ Resolves(config, PathOf(last.key))
           /\ Subtree(config, PathOf(last.key)) = last.arg
           /\ \A q \in DOMAIN last.before :
                 (~IsPrefix(q, PathOf(last.key)) /\ ~IsPrefix(PathOf(last.key), q))
                    => (q \in DOMAIN config /\ config[q] = last.before[q])

\* C26: reload() replaces the tree by one assignment: a get in progress
\* while reload() runs looks every segment up in one and the same tree, the
\* old one or the new one, and returns what get returns on that tree.
C26_GetSeesOneTree ==
    reader.pc = "returned"
        => /\ Cardinality(reader.used) <= 1
           /\ reader.used \subseteq reader.seen
           /\ \E t \in reader.seen \cap (reader.used \cup {reader.value}) :
                 reader.ret = get(t, reader.key, reader.default).ret

\* A get returned the value of the old tree after a reload had put another
\* tree in place, on which the same get gives something else.
C26_Witness ==
    /\ reader.pc = "returned"
    /\ Cardinality(reader.seen) >= 2
    /\ reader.value # config
    /\ reader.ret # get(config, reader.key, reader.default).ret

\* The file is missing, or is not a configuration: yaml rejects it, or it
\* is empty or holds something that is not a mapping.
BadSource(f) == f.kind \in {"missing", "unparsable"} \/ f.doc[<<>>] # "map"

\* C27: constructing the store or reloading it from a missing or malformed
\* source raises nothing and leaves the default tree; the tree held by the
\* store is always a mapping.
C27_BadSourceGivesDefaultTree ==
    /\ config[<<>>] = "map"
    /\ (last.op \in {"construct", "reload"} /\ BadSource(file))
          => (last.raised = "" /\ config = DefaultTree)

\* The i-th required path is missing or holds None.
Missing(t, i) ==
    \/ ~Resolves(t, PathOf(required_keys[i]))
    \/ t[PathOf(required_keys[i])] = "none"

\* C28: validate returns false exactly when some required path is missing
\* (or None), reports the first such path of the list, and leaves the tree
\* as it was.
C28_ValidateReportsFirstMissing ==
    last.op = "validate"
        => /\ (last.ret = Scalar("True"))
                 <=> \A i \in 1..Len(required_keys) : ~Missing(config, i)
           /\ last.ret \in {Scalar("True"), Scalar("False")}
           /\ last.ret = Scalar("False")
                 => \E i \in 1..Len(required_keys) :
                       /\ last.key = required_keys[i]
                       /\ Missing(config, i)
                       /\ \A j \in 1..(i - 1) : ~Missing(config, j)
           /\ config = last.before

\* validate returned false on a tree with two required paths missing.
C28_Witness ==
    /\ last.op = "validate"
    /\ last.ret = Scalar("False")
    /\ Cardinality({i \in 1..Len(required_keys) : Missing(config, i)}) >= 2

-----------------------------------------------------------------------------
(* Properties of main().                                                    *)

\* main() has returned 1 with WeChatBot.start() never called.
FatalBeforeStart == main.ret = "1" /\ ~main.start_called

\* C29: a failed validation is fatal: main() returns 1 before start() is
\* called (no plugin started, no handler registered, no login attempted);
\* it is the only startup condition that makes main() fail, and a missing
\* config file only gives a warning.
C29_OnlyValidationFailureIsFatal ==
    /\ main.valid = "False"
          => (FatalBeforeStart /\ ~main.handlers /\ main.login = "none"
              /\ \A id \in InstanceIds : ~inst[id].is_running)
    /\ main.ret = "1" => main.valid = "False"
    /\ (file.kind = "missing" /\ main.pc # "begin" /\ main.why # "interrupt")
          => main.warned

\* C29 as the code has it: a failed validation is fatal before start(); so
\* is a constructor that raises (validate is then never reached); a failed
\* login is fatal after start() was called; nothing else makes main()
\* return 1, and a missing config file gives a warning and the defaults.
C29_FatalStartupConditions ==
    /\ main.valid = "False"
          => (FatalBeforeStart /\ ~main.handlers /\ main.login = "none"
              /\ \A id \in InstanceIds : ~inst[id].is_running)
    /\ FatalBeforeStart
          <=> \/ main.valid = "False"
              \/ (main.pc = "returned" /\ main.valid = "unknown"
                  /\ main.why # "interrupt" /\ bot_init_raises(config))
    /\ (main.ret = "1" /\ main.start_called) <=> main.login = "failed"
    /\ (file.kind = "missing" /\ main.pc # "begin" /\ main.why # "interrupt")
          => (main.warned /\ (main.ret = "1" => main.login = "failed"))

\* Validation failed on a configuration that the constructor accepted.
C29_Witness ==
    /\ main.valid = "False"
    /\ main.ret = "1"
    /\ ~bot_init_raises(config)

-----------------------------------------------------------------------------
(* Properties of one plugin object.                                         *)

\* The object that the last call was made on.
Callee == inst[last.called[1]]

\* C30: disable() on a running plugin (is_running true) calls stop(): once
\* disable() has returned, the plugin is neither running nor enabled;
\* enable() and disable() on a stopped plugin change the enabled flag and
\* nothing else, and never start it.
C30_DisableStopsEnableNeverStarts ==
    /\ (last.op = "disable" /\ last.ok)
          => (~Callee.is_running /\ ~Callee.is_enabled
              /\ (last.before.is_running => last.sub_ok))
    /\ (last.op \in {"enable", "disable"} /\ ~last.before.is_running)
          => Callee = [last.before EXCEPT !.is_enabled = (last.op = "enable")]

\* disable() has returned on a plugin that was running.
C30_Witness ==
    /\ last.op = "disable"
    /\ last.ok
    /\ last.before.is_running
    /\ last.before.is_enabled

-----------------------------------------------------------------------------
(* Properties of the descriptors and of instance identity.                  *)

\* C31: status() reports for each loaded key a descriptor whose name equals
\* that key.
C31_DescriptorNameIsKey ==
    \A n \in Range(DictKeys(plugins)) :
        get_status(W, enabled).plugin_details[n].name = n

\* The objects that have left the registry: constructed, and no entry of
\* plugins refers to them.
Unregistered(p, i) == Allocated(i) \ Registered(p)

\* C32: a successful reload_plugin(name) registers an object that did not
\* exist before the call, with is_running false and no worker thread; and
\* an object that has left the registry is never registered again, never
\* goes from stopped to running, and is not what get_plugin hands to a
\* dispatch under any name.
C32_ReloadRegistersNewInstance ==
    [][/\ (last'.op = "reload_plugin" /\ last'.ok)
            => /\ DictHas(plugins', last'.name)
               /\ DictGet(plugins', last'.name) \notin Allocated(inst)
               /\ inst'[DictGet(plugins', last'.name)] = NewInstance(last'.name)
       /\ \A id \in Unregistered(plugins, inst) :
             /\ id \notin Registered(plugins')
             /\ inst'[id].is_running => inst[id].is_running
             /\ inst'[id].thread = "alive" => inst[id].thread = "alive"
             /\ \A n \in PluginNames :
                   get_plugin(Registry(plugins', plugin_modules', inst'), <<n>>) # id
      ]_vars

\* A successful reload has replaced a registered object, and the object it
\* replaced still exists outside the registry or has been destroyed.
C32_Witness ==
    /\ last.op = "reload_plugin"
    /\ last.ok
    /\ DictHas(plugins, last.name)
    /\ Unregistered(plugins, inst) # {}
    /\ ~inst[DictGet(plugins, last.name)].is_running

-----------------------------------------------------------------------------
(* Properties of the shipped plugins used on their own.                     *)

\* C33: a freshly constructed shipped plugin has is_running false; start()
\* leaves is_running true and stop() leaves it false, whatever the object
\* went through before and whether or not the call raised; and is_running
\* changes in no other step: Loaded(Stopped) -> Running <-> Stopped.
C33_LifecycleOfShippedPlugins ==
    [][/\ last'.op = "construct" => ~inst'[last'.called[1]].is_running
       /\ last'.op = "start" => inst'[last'.called[1]].is_running
       /\ last'.op = "stop" => ~inst'[last'.called[1]].is_running
       /\ \A id \in InstanceIds :
             (inst'[id].is_running # inst[id].is_running)
                => (last'.op \in {"start", "stop"} /\ last'.called = <<id>>)
      ]_vars

\* A shipped plugin with a worker thread has been started a second time,
\* after a stop(), by a start() that raised.
C33_Witness ==
    /\ last.op = "start"
    /\ ~last.ok
    /\ last.before.thread \in {"alive", "dead"}
    /\ ~last.before.is_running
    /\ last.name \in {"scheduler", "news_pusher"}

\* C38: for NewsPusherPlugin and SchedulerPlugin, whenever is_running is
\* true after start() and stop() calls that returned, the worker loop is
\* active: the loop flag is true and the worker thread is alive.
C38_RunningMeansWorkerActive ==
    \A id \in Allocated(inst) :
        (/\ PluginClass(inst[id].name) = "threaded"
         /\ inst[id].is_running
         /\ inst[id].started_ok)
            => (inst[id].loop_flag /\ inst[id].thread = "alive")

-----------------------------------------------------------------------------
(* Properties of the scheduler plugin.                                      *)

\* C34: each add command form of the scheduler help ('add daily HH:MM
\* <message>', 'add weekly <0-6> HH:MM <message>', 'add once YYYY-MM-DD
\* HH:MM <message>') is answered with the success text and stores one
\* active task of the caller with that type, that full schedule time and
\* that message.
C34_DocumentedAddsAccepted ==
    \A f \in DocumentedForms :
        (/\ last.op = "add"
         /\ last.command = AddCommand(f.task_type, f.schedule_time, f.message))
            => /\ last.reply = "added"
               /\ Len(scheduled_tasks) = Len(last.before) + 1
               /\ LET row == scheduled_tasks[Len(scheduled_tasks)]
                  IN  /\ row.user_id = last.user_id
                      /\ row.task_type = f.task_type
                      /\ row.schedule_time = f.schedule_time
                      /\ row.message = f.message
                      /\ row.is_active = 1
\* C40: a 'delete <id>' issued for a task that another user created leaves
\* the table as it was (the task stays active) and is answered with the
\* not-found / no-permission text; 'list' shows a user only rows that this
\* user created.
C40_TasksArePrivate ==
    /\ (/\ last.op = "delete"
        /\ Target(last.command, last.before) # 0
        /\ last.before[Target(last.command, last.before)].user_id # last.user_id)
          => (scheduled_tasks = last.before /\ last.reply = "not_found")
    /\ last.op = "list" => \A id \in last.shown : last.before[id].user_id = last.user_id

\* A user has asked to delete an active task of another user, who sees it
\* in the table still.
C40_Witness ==
    /\ last.op = "delete"
    /\ Target(last.command, last.before) # 0
    /\ last.before[Target(last.command, last.before)].user_id # last.user_id
    /\ scheduled_tasks[Target(last.command, last.before)].is_active = 1
    /\ \E id \in 1..Len(scheduled_tasks) :
          scheduled_tasks[id].user_id = last.user_id /\ scheduled_tasks[id].is_active = 1

\* The sends of task t: the positions in outbox of its messages.
Sends(t) == {i \in 1..Len(outbox) : outbox[i].task_id = t}

C36_DeletedTaskSendsNothing ==
    [][/\ (last'.op = "delete" /\ last'.reply = "deleted")
            => scheduled_tasks'[Target(last'.command, scheduled_tasks)].is_active = 0
       /\ \A t \in 1..Len(scheduled_tasks) :
             scheduled_tasks[t].is_active = 0
                => (Len(scheduled_tasks') >= t /\ scheduled_tasks'[t].is_active = 0)
       /\ outbox' # outbox => (firing.pc = "checked" /\ firing.began_active)
       /\ Len(jobs') >= Len(jobs)
      ]_vars

\* The callback of a task that its owner had deleted has run and has sent
\* nothing.
C36_Witness ==
    /\ last.op = "fire"
    /\ last.reply = "skipped"
    /\ \E t \in last.shown :
          /\ scheduled_tasks[t].is_active = 0
          /\ \E j \in 1..Len(jobs) : jobs[j].task_id = t

\* C37: each active task has at most one timer callback in the process-wide
\* schedule, and one firing time gives at most one message per task,
\* whatever was constructed, loaded and reloaded before.
C37_OneTimerPerActiveTask ==
    \A t \in 1..Len(scheduled_tasks) :
        scheduled_tasks[t].is_active = 1
            => /\ Cardinality({j \in 1..Len(jobs) : jobs[j].task_id = t}) <= 1
               /\ \A i, k \in Sends(t) : outbox[i].slot = outbox[k].slot => i = k

-----------------------------------------------------------------------------
(* Properties of the news plugin.                                           *)

\* C39: when a daily push is over, however it ended and whatever subscribe
\* and unsubscribe commands ran during it, every user who was subscribed
\* from its beginning to its end has been sent the message.
C39_PushReachesAllWhoStayed ==
    push.pc \in {"done", "aborted"} => push.stayed \subseteq push.delivered

====
